---- MODULE Spec2Model ----
(***************************************************************************)
(* The job processing pipeline of the video downloader backend:            *)
(*   JobStore        (backend/services/videoEngine.js, second module)      *)
(*   VideoEngine     (backend/services/videoEngine.js)                     *)
(*   VideoController (controllers/videoController.js)                      *)
(*   CleanupService  (services/cleanupService.js)                          *)
(*                                                                         *)
(* Node.js runs every handler to its next await without interleaving, so   *)
(* one action is one run-to-completion step: a request handler up to its   *)
(* await, or a subprocess event together with the promise continuation     *)
(* (a microtask) that it resumes.                                          *)
(*                                                                         *)
(* Numbers: a job's progress is kept in hundredths (progress 40 is 4000),  *)
(* a download percentage in tenths ("55.5%" is 555), so that               *)
(* 50 + percent * 0.4 is computed exactly. Dates are minutes on one clock. *)
(*                                                                         *)
(* The specifications share the actions:                                   *)
(*   Spec         the pipeline within one minute (requests, subprocess     *)
(*                events), the responses not looked at                     *)
(*   SpecSweep    the pipeline with the clock and the cleanup passes       *)
(*   SpecRestart  the same over a temp directory that holds a directory    *)
(*                of an earlier run                                        *)
(*   SpecTimer    SpecSweep with the clock and the fault-free pass fair    *)
(*   SpecApi      the pipeline with the response of each request           *)
(*   SpecExits    the pipeline with the exit of every subprocess fair      *)
(*   SpecFormats  extractFormats on one formats list                       *)
(*   SpecStdout   the stdout handler of a download on one output           *)
(*   SpecStore    one call of update or updateStage on a job store         *)
(*   SpecDelete   deleteDirectory, one file system call at a time, while   *)
(*                the download tool writes                                 *)
(*   SpecScheduler  start and stop of the cleanup scheduler and its timers *)
(***************************************************************************)
EXTENDS Integers, Sequences, FiniteSets, TLC

\* ------------------------------------------------------------------ bounds
MaxJobs == 2          \* job records ever created (uuids are never reused)
MaxProcs == 3         \* subprocesses ever spawned (pids are never reused)
MaxSpawned == 4       \* the same in SpecExits, which needs two downloads of two jobs
MaxTime == 2          \* minutes the clock runs for
MaxLines == 3         \* progress lines a download's tool writes
MaxFormats == 4       \* entries in the formats list of the tool's JSON
MaxTimers == 3        \* timers the scheduler ever sets (start calls)
MaxPasses == 4        \* cleanup passes the scheduler ever starts

\* ------------------------------------------------------- program constants
\* config.maxJobsPerIp: parseInt(MAX_JOBS_PER_IP) || 10; the model runs the
\* server with MAX_JOBS_PER_IP=1, so that a requester at the quota can still
\* ask for a job that MaxJobs allows.
maxJobsPerIp == 1

\* config.jobExpiryMinutes: parseInt(JOB_EXPIRY_MINUTES) || 15; the model
\* runs the server with JOB_EXPIRY_MINUTES=1. Time is counted in minutes.
jobExpiryMinutes == 1

NULL == "null"

\* a Date field that is null
NoDate == -1

JobIds == 1..MaxJobs

\* A name in the temp directory that is no job id of this run.
StrayEntry == 0

\* The names the temp directory can hold.
Entries == JobIds \cup {StrayEntry}
Pids == 1..MaxSpawned
Clients == {"ip1"}

stageOrder == <<"validation", "metadata", "download", "processing", "ready">>
StageNames == {stageOrder[i] : i \in 1..Len(stageOrder)}

\* What the extraction tool can report as renditions (metadata.formats).
FormatLists ==
    { <<>>,
      << [formatId |-> "137", preset |-> "1080p", quality |-> "1080p"],
         [formatId |-> "140", preset |-> "audio", quality |-> "audio"] >> }

\* Entries of the formats list of the tool's JSON: video at seven heights
\* (two of them 1080, four below 720), a file with video and audio,
\* audio-only entries as the tool writes them (vcodec 'none') and with the
\* video codec missing, and a storyboard. A height that is missing or null
\* is 0.
RawFormats ==
    { [format_id |-> "401", vcodec |-> "av01", acodec |-> "none", height |-> 2160],
      [format_id |-> "137", vcodec |-> "avc1", acodec |-> "none", height |-> 1080],
      [format_id |-> "248", vcodec |-> "vp9", acodec |-> "none", height |-> 1080],
      [format_id |-> "22", vcodec |-> "avc1", acodec |-> "mp4a", height |-> 720],
      [format_id |-> "135", vcodec |-> "avc1", acodec |-> "none", height |-> 480],
      [format_id |-> "134", vcodec |-> "avc1", acodec |-> "none", height |-> 360],
      [format_id |-> "133", vcodec |-> "avc1", acodec |-> "none", height |-> 240],
      [format_id |-> "160", vcodec |-> "avc1", acodec |-> "none", height |-> 144],
      [format_id |-> "140", vcodec |-> "none", acodec |-> "mp4a", height |-> 0],
      [format_id |-> "251", vcodec |-> NULL, acodec |-> "opus", height |-> 0],
      [format_id |-> "sb0", vcodec |-> "none", acodec |-> "none", height |-> 0] }

\* The lists of them the tool can report.
RawFormatLists == UNION {[1..n -> RawFormats] : n \in 0..MaxFormats}

\* The progress lines of the tool, character by character: 10.0%, 55.5%
\* and 100%, each ended by a newline (the tool runs with --newline).
ProgressLines ==
    { <<"1", "0", ".", "0", "%", "\n">>,
      <<"5", "5", ".", "5", "%", "\n">>,
      <<"1", "0", "0", "%", "\n">> }

\* the lines joined into the text the tool writes
RECURSIVE joinLines(_)
joinLines(ls) == IF ls = << >> THEN << >> ELSE Head(ls) \o joinLines(Tail(ls))

\* What a download's tool can write to its standard output.
ToolOutputs ==
    {joinLines(ls) : ls \in UNION {[1..n -> ProgressLines] : n \in 0..MaxLines}}

\* What a process request can carry as formatId / quality.
FormatIdInputs == {NULL, "140"}
QualityInputs == {NULL, "audio"}

\* Percentages a progress line can carry, in tenths: 55.5%, 100%.
Percents == {555, 1000}

\* The statuses a stage is given.
StageStatuses == {"pending", "processing", "completed", "failed"}

\* The objects jobStore.update is called with: the ones the controller
\* passes, the empty object, and objects that name id, createdAt, updatedAt.
UpdateInputs ==
    { << >>,
      [status |-> "analyzing", platform |-> "youtube"],
      [status |-> "failed", error |-> "Download failed"],
      [progress |-> 7220],
      [status |-> "completed", outputPath |-> "media.mp4", progress |-> 10000,
       expiresAt |-> 2],
      [id |-> 2],
      [createdAt |-> 1],
      [updatedAt |-> 0] }

\* The format object of a job with no selected format (null / undefined).
NoFormat == [formatId |-> NULL, preset |-> NULL, quality |-> NULL]

\* The media file the tool writes into a job's directory, as a path relative
\* to that directory.
MediaFile == "media.mp4"

VARIABLES
    jobs,              \* JobStore.jobs: Map job id -> job record
    nextJob,           \* the next fresh uuid
    procs,             \* the running ChildProcess handles: pid -> handle
    activeProcesses,   \* VideoEngine.activeProcesses: Map job id -> pid
    dirs,              \* temp dir: name -> "none" | "file" | "empty" | "media"
    mtime,             \* temp dir: name -> modification time of the entry
    spawned,           \* how many subprocesses were spawned so far
    serverUp,          \* FALSE once an uncaught exception ended the server
    now,               \* Date.now(), in minutes
    report,            \* what the last cleanup pass did
    response,          \* the last HTTP response sent
    rawFormats,        \* the formats list of the tool's JSON (raw.formats)
    extracted,         \* << >>, or <<f>> once extractFormats returned f
    toolOutput,        \* the characters a download's tool writes to stdout
    delivered,         \* how many of them stdout data events have carried
    callbacks,         \* the percentages onProgress was invoked with
    lastCall,          \* the JobStore call made on a store looked at on its own
    tree,              \* the paths that exist at and under one job directory
    frames,            \* the calls of deleteDirectory in progress, innermost last
    deletion,          \* of the outermost deleteDirectory: idle, running, done, threw
    intervalId,        \* CleanupService.intervalId: NoTimer or the timer start set last
    timers,            \* the interval timers of the runtime that are set
    nextTimer,         \* the next fresh timer
    passes             \* how many cleanup passes the scheduler started

coreVars == <<jobs, nextJob, procs, activeProcesses, dirs, mtime, spawned, serverUp>>

\* the inputs and results of the functions looked at on their own
\* the scheduler
timerVars == <<intervalId, timers, nextTimer, passes>>

pureVars == <<rawFormats, extracted, toolOutput, delivered, callbacks, lastCall,
             tree, frames, deletion, timerVars>>

vars == <<jobs, nextJob, procs, activeProcesses, dirs, mtime, spawned, serverUp,
          now, report, response, rawFormats, extracted, toolOutput, delivered,
          callbacks, lastCall, tree, frames, deletion, intervalId, timers,
          nextTimer, passes>>

\* ---------------------------------------------------------------- JobStore

\* Map.delete
MapDelete(m, k) == [x \in DOMAIN m \ {k} |-> m[x]]

\* Map.set
MapSet(m, k, v) == [x \in DOMAIN m \cup {k} |-> IF x = k THEN v ELSE m[x]]

\* JobStore.get(jobId) !== null
has(js, jobId) == jobId \in DOMAIN js

\* JobStore.create (the metadata object is left out)
create(js, jobId, url, clientIp) ==
    MapSet(js, jobId,
        [ id |-> jobId,
          url |-> url,
          clientIp |-> clientIp,
          platform |-> NULL,
          status |-> "pending",
          progress |-> 0,
          stage |-> "initializing",
          stages |-> [s \in StageNames |-> [status |-> "pending", message |-> ""]],
          formats |-> <<>>,
          selectedFormat |-> NoFormat,
          outputPath |-> NULL,
          error |-> NULL,
          createdAt |-> now,
          updatedAt |-> now,
          expiresAt |-> NoDate ])

\* update without its test for a missing job: the fields are stored anyway
updateOrCreate(js, jobId, updates) ==
    MapSet(js, jobId, [updatedAt |-> now] @@ updates @@
                         (IF jobId \in DOMAIN js THEN js[jobId] ELSE << >>))

\* JobStore.update: { ...job, ...updates, updatedAt: new Date() }
update(js, jobId, updates) ==
    IF jobId \notin DOMAIN js THEN js
    ELSE MapSet(js, jobId, [updatedAt |-> now] @@ updates @@ js[jobId])

\* Math.round(x / y) for x >= 0, y > 0
Round(x, y) == (2 * x + y) \div (2 * y)

\* stageOrder.findIndex(s => stages[s].status !== 'completed'), 0-based, -1 if none
findIndex(stages) ==
    LET bad == {i \in 1..Len(stageOrder) : stages[stageOrder[i]].status # "completed"}
    IN IF bad = {} THEN -1
       ELSE (CHOOSE i \in bad : \A k \in bad : i <= k) - 1

\* stageProgress from the number of completed stages, wherever they are
stageProgressCounted(stages) ==
    Cardinality({s \in StageNames : stages[s].status = "completed"}) * 20 * 100

\* the progress updateStage derives from the stages, in hundredths
stageProgress(stages) ==
    LET completedIndex == findIndex(stages)
    IN IF completedIndex = -1 THEN 100 * 100
       ELSE Round(completedIndex * 100, Len(stageOrder)) * 100

\* JobStore.updateStage
updateStage(js, jobId, stageName, status, message) ==
    IF jobId \notin DOMAIN js THEN js
    ELSE LET job == js[jobId]
             stages == [job.stages EXCEPT ![stageName] =
                           [status |-> status, message |-> message]]
         IN MapSet(js, jobId,
                [job EXCEPT !.stages = stages,
                            !.stage = stageName,
                            !.updatedAt = now,
                            !.progress = stageProgress(stages)])

\* JobStore.getByIp
getByIp(js, clientIp) == {j \in DOMAIN js : js[j].clientIp = clientIp}

\* JobStore.get: << >> for null, <<job>> for a job
get(js, jobId) == IF jobId \in DOMAIN js THEN <<js[jobId]>> ELSE << >>

\* no JobStore call was made yet
NoCall == [op |-> "none", id |-> 0, returned |-> << >>]

\* one call of jobStore.update on the store
StoreUpdate(jobId, updates) ==
    /\ lastCall = NoCall
    /\ jobs' = update(jobs, jobId, updates)
    /\ lastCall' = [op |-> "update", id |-> jobId, returned |-> get(jobs', jobId)]
    /\ UNCHANGED <<nextJob, procs, activeProcesses, dirs, mtime, spawned, serverUp,
                   now, report, response, rawFormats, extracted, toolOutput,
                   delivered, callbacks, tree, frames, deletion,
                   timerVars>>

\* one call of jobStore.updateStage on the store
StoreUpdateStage(jobId, stageName, status, message) ==
    /\ lastCall = NoCall
    /\ jobs' = updateStage(jobs, jobId, stageName, status, message)
    /\ lastCall' = [op |-> "updateStage", id |-> jobId, returned |-> get(jobs', jobId)]
    /\ UNCHANGED <<nextJob, procs, activeProcesses, dirs, mtime, spawned, serverUp,
                   now, report, response, rawFormats, extracted, toolOutput,
                   delivered, callbacks, tree, frames, deletion,
                   timerVars>>

\* ------------------------------------------------------------- VideoEngine

\* the pid of the next subprocess
nextPid == spawned + 1

\* child_process.spawn: a new ChildProcess handle; outputPath is the local
\* variable of download's promise executor
spawn(ps, pid, jobId, kind) ==
    MapSet(ps, pid,
        [ jobId |-> jobId,
          kind |-> kind,
          killed |-> FALSE,
          outputPath |-> NULL ])

Running(kind) == {p \in DOMAIN procs : procs[p].kind = kind}

\* cancel without its activeProcesses.delete call
cancelActiveKept(ap, jobId) == ap

\* VideoEngine.cancel: the Map and the handles after the call
cancelActive(ap, jobId) == MapDelete(ap, jobId)

cancelProcs(ps, ap, jobId) ==
    IF jobId \in DOMAIN ap /\ ap[jobId] \in DOMAIN ps
    THEN [ps EXCEPT ![ap[jobId]].killed = TRUE]
    ELSE ps

\* VideoEngine.cancel: its return value
cancel(ap, jobId) == jobId \in DOMAIN ap

\* the characters \d matches, with their values
digitValue ==
    [c \in {"0", "1", "2", "3", "4", "5", "6", "7", "8", "9"} |->
        CASE c = "0" -> 0 [] c = "1" -> 1 [] c = "2" -> 2 [] c = "3" -> 3
          [] c = "4" -> 4 [] c = "5" -> 5 [] c = "6" -> 6 [] c = "7" -> 7
          [] c = "8" -> 8 [] c = "9" -> 9]

\* the end of the longest run of digits of text that starts at i (i - 1 when
\* there is no digit at i)
digitsEnd(text, i) ==
    LET ends == {j \in i..Len(text) : \A k \in i..j : text[k] \in DOMAIN digitValue}
    IN IF ends = {} THEN i - 1 ELSE CHOOSE j \in ends : \A k \in ends : k <= j

\* the number a run of digits writes
RECURSIVE digitsValue(_)
digitsValue(ds) ==
    IF ds = << >> THEN 0
    ELSE digitsValue(SubSeq(ds, 1, Len(ds) - 1)) * 10 + digitValue[ds[Len(ds)]]

\* /(\d+\.?\d*)%/ tried at position i of text: << >>, or <<whole, fraction>>,
\* the two runs of digits of the capture. The digits, the dot and the digits
\* after it are taken greedily, and giving characters back never helps,
\* since the character after a run of digits is no digit.
matchAt(text, i) ==
    LET j == digitsEnd(text, i)
        k == digitsEnd(text, j + 2)
    IN IF j < i THEN << >>
       ELSE IF j + 1 <= Len(text) /\ text[j + 1] = "%"
       THEN <<SubSeq(text, i, j), << >> >>
       ELSE IF j + 1 <= Len(text) /\ text[j + 1] = "."
                /\ k + 1 <= Len(text) /\ text[k + 1] = "%"
       THEN <<SubSeq(text, i, j), SubSeq(text, j + 2, k)>>
       ELSE << >>

\* parseFloat of the capture, in tenths (the tool prints one decimal)
parseFloat(whole, fraction) ==
    digitsValue(whole) * 10 + (IF fraction = << >> THEN 0 ELSE digitValue[fraction[1]])

\* line.match(/(\d+\.?\d*)%/) and parseFloat(progressMatch[1]): << >> when
\* the text holds no match, else <<percent>> of the leftmost match
matchProgress(text) ==
    LET starts == {i \in 1..Len(text) : matchAt(text, i) # << >>}
        first == CHOOSE i \in starts : \A k \in starts : i <= k
    IN IF starts = {} THEN << >>
       ELSE <<parseFloat(matchAt(text, first)[1], matchAt(text, first)[2])>>

\* download's stdout handler on a data event that carries the next n
\* characters of the tool's output: the whole chunk is matched once
StdoutData(n) ==
    /\ delivered + n <= Len(toolOutput)
    /\ LET progressMatch == matchProgress(SubSeq(toolOutput, delivered + 1, delivered + n))
       IN callbacks' = IF progressMatch # << >>
                       THEN Append(callbacks, progressMatch[1])
                       ELSE callbacks
    /\ delivered' = delivered + n
    /\ UNCHANGED <<coreVars, now, report, response, rawFormats, extracted, toolOutput,
                   lastCall, tree, frames, deletion,
                   timerVars>>

\* extractFormats: the filter before the sort
keptFormat(f) == f.height # 0 \/ f.acodec # "none"

\* Array.prototype.sort with (a, b) => (b.height || 0) - (a.height || 0):
\* descending height, equal heights in their order of arrival (the sort is
\* stable)
RECURSIVE insertByHeight(_, _)
insertByHeight(sorted, f) ==
    IF sorted = << >> THEN <<f>>
    ELSE IF Head(sorted).height >= f.height
    THEN <<Head(sorted)>> \o insertByHeight(Tail(sorted), f)
    ELSE <<f>> \o sorted

RECURSIVE sortByHeight(_)
sortByHeight(fs) ==
    IF fs = << >> THEN << >>
    ELSE insertByHeight(sortByHeight(SubSeq(fs, 1, Len(fs) - 1)), fs[Len(fs)])

\* VideoEngine.getQualityLabel
getQualityLabel(height) ==
    IF height >= 2160 THEN "4K Ultra"
    ELSE IF height >= 1440 THEN "2K"
    ELSE IF height >= 1080 THEN "Full HD"
    ELSE IF height >= 720 THEN "HD"
    ELSE IF height >= 480 THEN "SD"
    ELSE "Low"

\* extractFormats: the entry pushed to videoFormats; the key is
\* `${format.height}p`. An entry has no preset and no badge until it is
\* copied into a preset.
videoFormat(f) ==
    [ formatId |-> f.format_id,
      type |-> "video",
      quality |-> ToString(f.height) \o "p",
      height |-> f.height,
      label |-> getQualityLabel(f.height),
      preset |-> NULL,
      badge |-> NULL ]

\* extractFormats: the entry pushed to audioFormats (it has no height)
audioFormat(f) ==
    [ formatId |-> f.format_id,
      type |-> "audio",
      quality |-> "audio",
      height |-> 0,
      label |-> "Audio Only",
      preset |-> NULL,
      badge |-> NULL ]

\* extractFormats: the test of the loop's first branch
isVideoFormat(f) == f.vcodec # NULL /\ f.vcodec # "none" /\ f.height # 0

\* extractFormats: the test of the loop's second branch (!format.vcodec
\* holds for a codec that is missing, not for the string 'none')
isAudioFormat(f) == f.acodec # NULL /\ f.acodec # "none" /\ f.vcodec = NULL

\* extractFormats: the loop over the sorted formats; acc holds videoFormats,
\* audioFormats and seenResolutions
RECURSIVE extractLoop(_, _)
extractLoop(acc, sorted) ==
    IF sorted = << >> THEN acc
    ELSE LET format == Head(sorted)
             key == ToString(format.height) \o "p"
             next == IF isVideoFormat(format)
                     THEN IF key \notin acc.seenResolutions
                          THEN [acc EXCEPT
                                  !.seenResolutions = @ \cup {key},
                                  !.videoFormats = Append(@, videoFormat(format))]
                          ELSE acc
                     ELSE IF isAudioFormat(format)
                     THEN IF acc.audioFormats = << >>
                          THEN [acc EXCEPT !.audioFormats = Append(@, audioFormat(format))]
                          ELSE acc
                     ELSE acc
         IN extractLoop(next, Tail(sorted))

\* find taking the last entry at or above the threshold, not the first
findHeightLast(videoFormats, threshold) ==
    LET found == {i \in 1..Len(videoFormats) : videoFormats[i].height >= threshold}
    IN IF found = {} THEN << >>
       ELSE <<videoFormats[CHOOSE i \in found : \A k \in found : i >= k]>>

\* videoFormats.find(f => f.height >= threshold): << >> or the entry found
findHeight(videoFormats, threshold) ==
    LET found == {i \in 1..Len(videoFormats) : videoFormats[i].height >= threshold}
    IN IF found = {} THEN << >>
       ELSE <<videoFormats[CHOOSE i \in found : \A k \in found : i <= k]>>

\* extractFormats: a preset built from the entries found
presetOf(found, preset, label, badge) ==
    IF found = << >> THEN << >>
    ELSE <<[found[1] EXCEPT !.preset = preset, !.label = label, !.badge = badge]>>

\* VideoEngine.extractFormats
extractFormats(raw) ==
    LET sorted == sortByHeight(SelectSeq(raw, keptFormat))
        acc == extractLoop([videoFormats |-> << >>, audioFormats |-> << >>,
                            seenResolutions |-> {}], sorted)
        presets ==
            presetOf(findHeight(acc.videoFormats, 2160), "4k", "4K Ultra", "BEST QUALITY")
            \o presetOf(findHeight(acc.videoFormats, 1080), "1080p", "Full HD", "MOST POPULAR")
            \o presetOf(findHeight(acc.videoFormats, 720), "720p", "Standard", "SMALLEST SIZE")
            \o presetOf(acc.audioFormats, "audio", "Extract Audio Only", NULL)
    IN IF Len(presets) > 0 THEN presets
       ELSE SubSeq(acc.videoFormats, 1, IF Len(acc.videoFormats) < 3
                                         THEN Len(acc.videoFormats) ELSE 3)

\* parseMetadata calls extractFormats on the formats of the tool's JSON
ExtractFormats ==
    /\ extracted = << >>
    /\ extracted' = <<extractFormats(rawFormats)>>
    /\ UNCHANGED <<coreVars, now, report, response, rawFormats,
                   toolOutput, delivered, callbacks, lastCall, tree, frames, deletion,
                   timerVars>>

\* ---------------------------------------------------------- CleanupService

\* CleanupService.deleteDirectory: every entry unlinked, then rmdir. fault
\* names the file system call that throws: "none", "unlink" (the media file
\* stays) or "rmdir" (the files are gone, the directory stays)
deleteDirectory(ds, jobId, fault) ==
    [ds EXCEPT ![jobId] = IF fault = "none" THEN "none"
                          ELSE IF fault = "rmdir" THEN "empty"
                          ELSE @]

\* the modification times after deleteDirectory: unlinking the file touches
\* the directory; an entry that is gone has no time
deleteDirectoryTimes(ds, ts, jobId, fault) ==
    [ts EXCEPT ![jobId] = IF fault = "none" THEN 0
                          ELSE IF fault = "rmdir" /\ ds[jobId] = "media" THEN now
                          ELSE @]

\* the faults deleteDirectory can meet on a job's directory
deleteFaults(ds, jobId) ==
    IF ds[jobId] = "none" THEN {"none"}
    ELSE IF ds[jobId] = "empty" THEN {"none", "rmdir"}
    ELSE {"none", "unlink", "rmdir"}

\* cleanupJob without its deleteDirectory call
cleanupJobDirsKept(ds, jobId, fault) == ds

\* CleanupService.cleanupJob: the directories after it
cleanupJobDirs(ds, jobId, fault) ==
    IF ds[jobId] # "none" THEN deleteDirectory(ds, jobId, fault) ELSE ds

\* CleanupService.cleanupJob: the modification times after it
cleanupJobTimes(ds, ts, jobId, fault) ==
    IF ds[jobId] # "none" THEN deleteDirectoryTimes(ds, ts, jobId, fault) ELSE ts

\* CleanupService.cleanupJob: the job store after it (jobStore.delete is
\* not reached when deleteDirectory throws)
cleanupJobStore(js, jobId, fault) ==
    IF fault = "none" THEN MapDelete(js, jobId) ELSE js

\* ---- deleteDirectory, one file system call at a time

\* A job directory: the path of the directory, of the files and of the
\* subdirectory it can hold, each a sequence of names.
JobDir == <<"job">>
DirPaths == {JobDir, <<"job", "frags">>}
ToolFiles == {<<"job", "video.part">>, <<"job", "frags", "2.part">>}
FilePaths == {<<"job", "video.mp4">>, <<"job", "frags", "1.part">>} \cup ToolFiles
Paths == DirPaths \cup FilePaths

\* path.dirname
parent(path) == SubSeq(path, 1, Len(path) - 1)

\* fs.readdirSync(dirPath), as paths
readdir(tr, dirPath) == {e \in tr : Len(e) > 1 /\ parent(e) = dirPath}

\* The directory trees a deletion can start on.
Trees == {tr \in SUBSET Paths : \A e \in tr : Len(e) > 1 => parent(e) \in tr}

\* deleteDirectory(dirPath) up to its loop: existsSync and readdirSync. A
\* call in progress keeps the listing it read and the entries still to visit
enterDirectory(fr, tr, dirPath) ==
    IF dirPath \in tr
    THEN Append(fr, [dir |-> dirPath, files |-> readdir(tr, dirPath),
                     rest |-> readdir(tr, dirPath)])
    ELSE fr

\* the call on top of the stack and the stack with that call changed
top(fr) == fr[Len(fr)]
visited(fr, e) == [fr EXCEPT ![Len(fr)].rest = @ \ {e}]

\* deleteDirectory without its unlinkSync call
unlinkSyncSkipped(tr, filePath) == tr

\* fs.unlinkSync
unlinkSync(tr, filePath) == tr \ {filePath}

\* cleanupJob or cleanOrphanedDirs calls deleteDirectory on the job directory
DeleteDirectoryStart ==
    /\ deletion = "idle"
    /\ frames' = enterDirectory(frames, tree, JobDir)
    /\ deletion' = IF frames' = << >> THEN "done" ELSE "running"
    /\ UNCHANGED <<coreVars, now, report, response, rawFormats, extracted, toolOutput,
                   delivered, callbacks, lastCall, tree,
                   timerVars>>

\* one round of the loop: statSync, then the recursive call or unlinkSync
DeleteDirectoryEntry(e) ==
    /\ deletion = "running"
    /\ e \in top(frames).rest
    /\ IF e \in DirPaths
       THEN /\ frames' = enterDirectory(visited(frames, e), tree, e)
            /\ UNCHANGED tree
       ELSE /\ tree' = unlinkSync(tree, e)
            /\ frames' = visited(frames, e)
    /\ UNCHANGED <<coreVars, now, report, response, rawFormats, extracted, toolOutput,
                   delivered, callbacks, lastCall, deletion,
                   timerVars>>

\* after the loop: rmdirSync, which throws ENOTEMPTY on a directory that
\* holds an entry; the exception ends every call in progress
DeleteDirectoryRmdir ==
    /\ deletion = "running"
    /\ top(frames).rest = {}
    /\ IF readdir(tree, top(frames).dir) = {}
       THEN /\ tree' = tree \ {top(frames).dir}
            /\ frames' = SubSeq(frames, 1, Len(frames) - 1)
            /\ deletion' = IF frames' = << >> THEN "done" ELSE "running"
       ELSE /\ frames' = << >>
            /\ deletion' = "threw"
            /\ UNCHANGED tree
    /\ UNCHANGED <<coreVars, now, report, response, rawFormats, extracted, toolOutput,
                   delivered, callbacks, lastCall,
                   timerVars>>

\* the download tool, a process of its own, creates a file in a directory
\* that exists; it writes every file once (a file a listing holds was
\* written before)
ToolAddsFile(f) ==
    /\ f \notin tree
    /\ parent(f) \in tree
    /\ \A i \in 1..Len(frames) : f \notin frames[i].files
    /\ tree' = tree \cup {f}
    /\ UNCHANGED <<coreVars, now, report, response, rawFormats, extracted, toolOutput,
                   delivered, callbacks, lastCall, frames, deletion,
                   timerVars>>

\* --------------------------------------------------------- VideoController

activeJobs(js, clientIp) ==
    {j \in getByIp(js, clientIp) : js[j].status \in {"pending", "analyzing", "processing"}}

\* analyzeRejects without the platform detection
analyzeRejectsAnyUrl(url, clientIp) ==
    IF url = NULL THEN TRUE
    ELSE Cardinality(activeJobs(jobs, clientIp)) >= maxJobsPerIp

\* analyzeRejects with the quota met only above maxJobsPerIp
analyzeRejectsAbove(url, clientIp) ==
    IF url = NULL THEN TRUE
    ELSE IF Cardinality(activeJobs(jobs, clientIp)) > maxJobsPerIp THEN TRUE
    ELSE url = "invalid"

\* analyze: the requests answered 400 or 429 before a job is created
analyzeRejects(url, clientIp) ==
    IF url = NULL THEN TRUE
    ELSE IF Cardinality(activeJobs(jobs, clientIp)) >= maxJobsPerIp THEN TRUE
    ELSE url = "invalid"

AnalyzeRejected(url, clientIp) ==
    /\ serverUp
    /\ analyzeRejects(url, clientIp)
    /\ UNCHANGED coreVars

\* analyze up to `await videoEngine.getMetadata(url)`
analyzeCreate(js, jobId, url, clientIp) ==
    LET j1 == create(js, jobId, url, clientIp)
        j2 == update(j1, jobId, [status |-> "analyzing", platform |-> "youtube"])
    IN updateStage(j2, jobId, "validation", "completed", "URL validated")

Analyze(url, clientIp) ==
    /\ serverUp
    /\ ~analyzeRejects(url, clientIp)
    /\ nextJob <= MaxJobs
    /\ spawned < MaxSpawned
    /\ jobs' = analyzeCreate(jobs, nextJob, url, clientIp)
    /\ nextJob' = nextJob + 1
    /\ procs' = spawn(procs, nextPid, nextJob, "metadata")
    /\ spawned' = spawned + 1
    /\ UNCHANGED <<activeProcesses, dirs, mtime, serverUp>>

\* analyze after getMetadata resolved
analyzeResolved(js, jobId, formats) ==
    LET j1 == updateStage(js, jobId, "metadata", "completed", "Metadata fetched")
    IN update(j1, jobId, [status |-> "ready", formats |-> formats, progress |-> 40 * 100])

\* analyze after getMetadata rejected
analyzeRejected(js, jobId, message) ==
    LET j1 == updateStage(js, jobId, "metadata", "failed", message)
    IN update(j1, jobId, [status |-> "failed", error |-> message])

\* the handle of a subprocess that exited is dropped
exited(ps, p) == MapDelete(ps, p)

\* getMetadata's close handler with code 0 and parsable output
MetadataResolve(p, formats) ==
    /\ serverUp
    /\ p \in Running("metadata")
    /\ procs' = exited(procs, p)
    /\ jobs' = analyzeResolved(jobs, procs[p].jobId, formats)
    /\ UNCHANGED <<nextJob, activeProcesses, dirs, mtime, spawned, serverUp>>

MetadataErrors == {"Failed to parse video metadata", "Failed to fetch video metadata"}

\* getMetadata's close handler when it rejects: code 0 and unparsable output,
\* or a code that is not 0 (the error handler rejects the same promise)
MetadataReject(p, code, message) ==
    /\ serverUp
    /\ p \in Running("metadata")
    /\ message = IF code = 0 THEN "Failed to parse video metadata"
                 ELSE "Failed to fetch video metadata"
    /\ procs' = exited(procs, p)
    /\ jobs' = analyzeRejected(jobs, procs[p].jobId, message)
    /\ UNCHANGED <<nextJob, activeProcesses, dirs, mtime, spawned, serverUp>>

\* process: the format picked for the request
selectFormat(formats, formatId, quality) ==
    LET byId == {i \in 1..Len(formats) : formats[i].formatId = formatId}
        byQuality == {i \in 1..Len(formats) :
                         formats[i].preset = quality \/ formats[i].quality = quality}
        first(S) == formats[CHOOSE i \in S : \A k \in S : i <= k]
        found == IF formatId # NULL
                 THEN (IF byId # {} THEN first(byId) ELSE NoFormat)
                 ELSE IF quality # NULL
                 THEN (IF byQuality # {} THEN first(byQuality) ELSE NoFormat)
                 ELSE NoFormat
    IN IF found = NoFormat /\ Len(formats) > 0 THEN formats[1] ELSE found

\* process: the requests answered 404 or 409
processRejects(jobId) ==
    IF ~has(jobs, jobId) THEN TRUE ELSE jobs[jobId].status = "processing"

ProcessRejected(jobId) ==
    /\ serverUp
    /\ processRejects(jobId)
    /\ UNCHANGED coreVars

\* process: the two job store calls before processDownload
processStart(js, jobId, selectedFormat) ==
    LET j1 == update(js, jobId, [status |-> "processing",
                                 selectedFormat |-> selectedFormat,
                                 progress |-> 50 * 100])
    IN updateStage(j1, jobId, "download", "processing", "Starting download...")

\* process, with processDownload up to `await videoEngine.download(...)`:
\* download makes the directory, spawns the tool and registers the handle
Process(jobId, formatId, quality) ==
    /\ serverUp
    /\ ~processRejects(jobId)
    /\ spawned < MaxSpawned
    /\ jobs' = processStart(jobs, jobId,
                   selectFormat(jobs[jobId].formats, formatId, quality))
    /\ dirs' = [dirs EXCEPT ![jobId] = IF @ = "none" THEN "empty" ELSE @]
    /\ mtime' = [mtime EXCEPT ![jobId] = IF dirs[jobId] = "none" THEN now ELSE @]
    /\ procs' = spawn(procs, nextPid, jobId, "download")
    /\ spawned' = spawned + 1
    /\ activeProcesses' = MapSet(activeProcesses, jobId, nextPid)
    /\ UNCHANGED <<nextJob, serverUp>>

\* the progress callback handed to videoEngine.download
onProgress(js, jobId, percent) ==
    update(js, jobId, [progress |-> 50 * 100 + percent * 4])

\* download's stdout handler on one chunk of output: progressMatch is <<>>
\* (no percentage in the chunk) or <<percent>>; destMatch says whether the
\* chunk names the output file (a Destination or a Merger line)
DownloadStdout(p, progressMatch, destMatch) ==
    /\ serverUp
    /\ p \in Running("download")
    /\ progressMatch # <<>> \/ destMatch
    /\ jobs' = IF progressMatch # <<>>
               THEN onProgress(jobs, procs[p].jobId, progressMatch[1])
               ELSE jobs
    /\ procs' = IF destMatch THEN [procs EXCEPT ![p].outputPath = MediaFile] ELSE procs
    /\ UNCHANGED <<nextJob, activeProcesses, dirs, mtime, spawned, serverUp>>

\* the tool writes its output file (it creates the directory when missing)
ToolWritesFile(p) ==
    /\ p \in Running("download")
    /\ dirs[procs[p].jobId] # "media"
    /\ dirs' = [dirs EXCEPT ![procs[p].jobId] = "media"]
    /\ mtime' = [mtime EXCEPT ![procs[p].jobId] = now]
    /\ UNCHANGED <<jobs, nextJob, procs, activeProcesses, spawned, serverUp>>

\* processDownload after download resolved
processDownloadResolved(js, jobId, outputPath) ==
    LET j1 == updateStage(js, jobId, "download", "completed", "Download complete")
        j2 == updateStage(j1, jobId, "processing", "completed", "Processing complete")
        j3 == update(j2, jobId, [status |-> "completed",
                                 outputPath |-> outputPath,
                                 progress |-> 100 * 100,
                                 expiresAt |-> now + jobExpiryMinutes])
    IN updateStage(j3, jobId, "ready", "completed", "Ready for download")

\* processDownloadRejected without its jobStore.update call
processDownloadRejectedStageOnly(js, jobId, message) ==
    updateStage(js, jobId, "download", "failed", message)

\* processDownload after download rejected
processDownloadRejected(js, jobId, message) ==
    LET j1 == updateStage(js, jobId, "download", "failed", message)
    IN update(j1, jobId, [status |-> "failed", error |-> message])

\* downloadOutcome with the exit code ignored: the file decides alone
downloadOutcomeAnyCode(p, code) ==
    IF procs[p].outputPath = NULL /\ dirs[procs[p].jobId] = "none" THEN "throws"
    ELSE IF dirs[procs[p].jobId] = "media" THEN "resolve"
    ELSE "Download completed but output file not found"

\* download's close handler: "throws" (readdirSync on a missing directory),
\* "resolve", or the message it rejects with
downloadOutcome(p, code) ==
    IF code # 0 THEN "Download failed"
    ELSE IF procs[p].outputPath = NULL /\ dirs[procs[p].jobId] = "none" THEN "throws"
    ELSE IF dirs[procs[p].jobId] = "media" THEN "resolve"
    ELSE "Download completed but output file not found"

\* the job store after processDownload's continuation
downloadSettled(js, jobId, outcome) ==
    IF outcome = "resolve" THEN processDownloadResolved(js, jobId, MediaFile)
    ELSE processDownloadRejected(js, jobId, outcome)

\* download's close handler and the continuation of processDownload
DownloadClose(p, code) ==
    /\ serverUp
    /\ p \in Running("download")
    /\ procs' = exited(procs, p)
    /\ activeProcesses' = MapDelete(activeProcesses, procs[p].jobId)
    /\ IF downloadOutcome(p, code) = "throws"
       THEN serverUp' = FALSE /\ UNCHANGED jobs
       ELSE /\ jobs' = downloadSettled(jobs, procs[p].jobId, downloadOutcome(p, code))
            /\ UNCHANGED serverUp
    /\ UNCHANGED <<nextJob, dirs, mtime, spawned>>

\* download's error handler (the tool could not be spawned: no output came)
DownloadError(p) ==
    /\ serverUp
    /\ p \in Running("download")
    /\ procs[p].outputPath = NULL
    /\ procs' = exited(procs, p)
    /\ activeProcesses' = MapDelete(activeProcesses, procs[p].jobId)
    /\ jobs' = processDownloadRejected(jobs, procs[p].jobId, "Download error")
    /\ UNCHANGED <<nextJob, dirs, mtime, spawned, serverUp>>

\* download (GET /api/download/:jobId): the handler reads the job store and
\* the file system and writes neither
Download(jobId) ==
    /\ serverUp
    /\ UNCHANGED coreVars

\* cleanup (DELETE /api/cleanup/:jobId) answered 404
CleanupRejected(jobId) ==
    /\ serverUp
    /\ ~has(jobs, jobId)
    /\ UNCHANGED coreVars

\* cleanup: whether the handler calls videoEngine.cancel
cleanupCancels(job) == job.status = "processing"

\* cleanup (DELETE /api/cleanup/:jobId)
Cleanup(jobId, fault) ==
    /\ serverUp
    /\ has(jobs, jobId)
    /\ fault \in deleteFaults(dirs, jobId)
    /\ IF cleanupCancels(jobs[jobId])
       THEN /\ procs' = cancelProcs(procs, activeProcesses, jobId)
            /\ activeProcesses' = cancelActive(activeProcesses, jobId)
       ELSE UNCHANGED <<procs, activeProcesses>>
    /\ dirs' = cleanupJobDirs(dirs, jobId, fault)
    /\ mtime' = cleanupJobTimes(dirs, mtime, jobId, fault)
    /\ jobs' = cleanupJobStore(jobs, jobId, fault)
    /\ UNCHANGED <<nextJob, spawned, serverUp>>

\* ------------------------------------------------------- the cleanup pass

Faults == {"none", "unlink", "rmdir"}

\* getExpired with the age compared by >=
getExpiredOrEqual(js, expiryMinutes) ==
    {j \in DOMAIN js : now - js[j].createdAt >= expiryMinutes}

\* getExpired sparing a completed job until its expiresAt
getExpiredSparing(js, expiryMinutes) ==
    {j \in DOMAIN js : /\ now - js[j].createdAt > expiryMinutes
                       /\ js[j].status = "completed" => now >= js[j].expiresAt}

\* JobStore.getExpired: the ids of the jobs it returns
getExpired(js, expiryMinutes) ==
    {j \in DOMAIN js : now - js[j].createdAt > expiryMinutes}

\* JobStore.getAll().map(j => j.id)
getAll(js) == DOMAIN js

\* cleanupLoop without its try and catch: the first failure ends the loop
RECURSIVE cleanupLoopUncaught(_, _, _)
cleanupLoopUncaught(st, expiredJobs, faults) ==
    IF expiredJobs = {} THEN st
    ELSE LET id == CHOOSE i \in expiredJobs : \A k \in expiredJobs : i <= k
             next == [st EXCEPT
                        !.jobs = cleanupJobStore(st.jobs, id, faults[id]),
                        !.dirs = cleanupJobDirs(st.dirs, id, faults[id]),
                        !.mtime = cleanupJobTimes(st.dirs, st.mtime, id, faults[id]),
                        !.cleaned = IF faults[id] = "none" THEN @ \cup {id} ELSE @]
         IN IF faults[id] # "none" THEN next
            ELSE cleanupLoopUncaught(next, expiredJobs \ {id}, faults)

\* cleanup: the loop over the expired jobs, in the order of the Map; st holds
\* the job store, the temp directory and the ids counted in cleanedCount;
\* faults[e] is the fault that cleanupJob's deleteDirectory meets on entry e
RECURSIVE cleanupLoop(_, _, _)
cleanupLoop(st, expiredJobs, faults) ==
    IF expiredJobs = {} THEN st
    ELSE LET id == CHOOSE i \in expiredJobs : \A k \in expiredJobs : i <= k
         IN cleanupLoop(
                [st EXCEPT !.jobs = cleanupJobStore(st.jobs, id, faults[id]),
                           !.dirs = cleanupJobDirs(st.dirs, id, faults[id]),
                           !.mtime = cleanupJobTimes(st.dirs, st.mtime, id, faults[id]),
                           !.cleaned = IF faults[id] = "none" THEN @ \cup {id} ELSE @],
                expiredJobs \ {id}, faults)

\* cleanup without its orphan scan
orphanedDirsNone(js, ds, ts, expiryMinutes) == {}

\* cleanOrphanedDirs without the test that skips the ids of the job store
orphanedDirsAnyId(js, ds, ts, expiryMinutes) ==
    {e \in Entries : /\ ds[e] # "none"
                     /\ ds[e] # "file"
                     /\ now - ts[e] > expiryMinutes}

\* cleanOrphanedDirs without the isDirectory test
orphanedDirsAnyKind(js, ds, ts, expiryMinutes) ==
    {e \in Entries : /\ ds[e] # "none"
                     /\ e \notin getAll(js)
                     /\ now - ts[e] > expiryMinutes}

\* cleanOrphanedDirs: the entries it calls deleteDirectory on
orphanedDirs(js, ds, ts, expiryMinutes) ==
    {e \in Entries : /\ ds[e] # "none"
                     /\ e \notin getAll(js)
                     /\ ds[e] # "file"
                     /\ now - ts[e] > expiryMinutes}

\* cleanOrphanedDirs: the loop over the entries of the temp directory;
\* faults[e] is the fault that deleteDirectory meets on entry e
RECURSIVE cleanOrphanedLoop(_, _, _)
cleanOrphanedLoop(st, orphans, faults) ==
    IF orphans = {} THEN st
    ELSE LET dir == CHOOSE e \in orphans : \A k \in orphans : e <= k
         IN cleanOrphanedLoop(
                [st EXCEPT !.dirs = deleteDirectory(st.dirs, dir, faults[dir]),
                           !.mtime = deleteDirectoryTimes(st.dirs, st.mtime, dir, faults[dir]),
                           !.orphans = IF faults[dir] = "none" THEN @ \cup {dir} ELSE @],
                orphans \ {dir}, faults)

\* CleanupService.cleanOrphanedDirs
cleanOrphanedDirs(st, expiryMinutes, faults) ==
    cleanOrphanedLoop(st, orphanedDirs(st.jobs, st.dirs, st.mtime, expiryMinutes), faults)

\* what a pass keeps of an expired job for its report
expiredJob(job) ==
    [id |-> job.id, status |-> job.status, expiresAt |-> job.expiresAt]

\* cleanup up to `await this.cleanOrphanedDirs()`
cleanupExpired(expiryMinutes, faults) ==
    cleanupLoop([jobs |-> jobs, dirs |-> dirs, mtime |-> mtime,
                 cleaned |-> {}, orphans |-> {}],
                getExpired(jobs, expiryMinutes), faults)

\* CleanupService.cleanup: the state after a pass
cleanup(expiryMinutes, faults, orphanFaults) ==
    cleanOrphanedDirs(cleanupExpired(expiryMinutes, faults), expiryMinutes, orphanFaults)

\* the faults the loop over the expired jobs can meet: deleteDirectory is
\* called on the directories that exist
JobFaults ==
    {f \in [Entries -> Faults] :
        \A e \in Entries :
            f[e] \in IF e \in getExpired(jobs, jobExpiryMinutes) /\ dirs[e] # "none"
                     THEN deleteFaults(dirs, e)
                     ELSE {"none"}}

\* the faults the orphan scan can meet after that loop
OrphanFaults(st) ==
    {f \in [Entries -> Faults] :
        \A e \in Entries :
            f[e] \in IF e \in orphanedDirs(st.jobs, st.dirs, st.mtime, jobExpiryMinutes)
                     THEN deleteFaults(st.dirs, e)
                     ELSE {"none"}}

\* one run of CleanupService.cleanup (at start and on every timer tick); its
\* awaits are on promises that are already settled, so no event interleaves
RunCleanup(faults, orphanFaults) ==
    /\ serverUp
    /\ LET st == cleanup(jobExpiryMinutes, faults, orphanFaults)
       IN /\ jobs' = st.jobs
          /\ dirs' = st.dirs
          /\ mtime' = st.mtime
          /\ report' = [expired |-> {expiredJob(jobs[j]) :
                                        j \in getExpired(jobs, jobExpiryMinutes)},
                        cleaned |-> st.cleaned,
                        orphans |-> st.orphans]
    /\ UNCHANGED <<nextJob, procs, activeProcesses, spawned, serverUp, now, response,
                   rawFormats, extracted, toolOutput, delivered, callbacks, lastCall,
                   tree, frames, deletion>>

\* a pass that the timer or the start of the server begins at any time
CleanupPass(faults, orphanFaults) ==
    /\ RunCleanup(faults, orphanFaults)
    /\ UNCHANGED timerVars

\* ---- the scheduler

\* this.intervalId = null
NoTimer == 0

\* CleanupService.start: one pass at once, then a timer of the runtime that
\* starts a pass on every tick; the handle of the timer is kept in intervalId
SchedulerStart(faults, orphanFaults) ==
    /\ nextTimer <= MaxTimers
    /\ passes < MaxPasses
    /\ RunCleanup(faults, orphanFaults)
    /\ passes' = passes + 1
    /\ timers' = timers \cup {nextTimer}
    /\ intervalId' = nextTimer
    /\ nextTimer' = nextTimer + 1

\* CleanupService.stop: the timers of the runtime after clearInterval
stoppedTimers(ts, id) == IF id # NoTimer THEN ts \ {id} ELSE ts

\* CleanupService.stop
SchedulerStop ==
    /\ timers' = stoppedTimers(timers, intervalId)
    /\ intervalId' = NoTimer
    /\ UNCHANGED <<coreVars, now, report, response, rawFormats, extracted, toolOutput,
                   delivered, callbacks, lastCall, tree, frames, deletion,
                   nextTimer, passes>>

\* a timer of the runtime ticks: the callback given to setInterval runs
TimerFires(t, faults, orphanFaults) ==
    /\ t \in timers
    /\ passes < MaxPasses
    /\ RunCleanup(faults, orphanFaults)
    /\ passes' = passes + 1
    /\ UNCHANGED <<intervalId, timers, nextTimer>>

\* a minute passes
Tick ==
    /\ now < MaxTime
    /\ now' = now + 1
    /\ UNCHANGED <<coreVars, report, response, pureVars>>

\* ------------------------------------------------------- the HTTP responses

NoResponse == [handler |-> "none", status |-> 0, error |-> ""]

\* analyze: the response of a request answered before a job is created
analyzeError(url, clientIp) ==
    IF url = NULL
    THEN [handler |-> "analyze", status |-> 400, error |-> "URL is required"]
    ELSE IF Cardinality(activeJobs(jobs, clientIp)) >= maxJobsPerIp
    THEN [handler |-> "analyze", status |-> 429, error |-> "Too many active jobs"]
    ELSE [handler |-> "analyze", status |-> 400, error |-> "Unsupported platform"]

\* analyze: the response once getMetadata settled
analyzeResponse(resolved) ==
    IF resolved THEN [handler |-> "analyze", status |-> 200, error |-> ""]
    ELSE [handler |-> "analyze", status |-> 422, error |-> "Failed to analyze video"]

\* process: the response of a request
processResponse(jobId) ==
    IF ~has(jobs, jobId)
    THEN [handler |-> "process", status |-> 404, error |-> "Job not found"]
    ELSE IF jobs[jobId].status = "processing"
    THEN [handler |-> "process", status |-> 409, error |-> "Job is already processing"]
    ELSE [handler |-> "process", status |-> 200, error |-> ""]

\* downloadResponse without the fs.existsSync check
downloadResponseAnyFile(jobId) ==
    IF ~has(jobs, jobId)
    THEN [handler |-> "download", status |-> 404, error |-> "Job not found"]
    ELSE IF jobs[jobId].status # "completed"
    THEN [handler |-> "download", status |-> 400, error |-> "File not ready for download"]
    ELSE IF jobs[jobId].outputPath = NULL
    THEN [handler |-> "download", status |-> 400, error |-> "File not ready for download"]
    ELSE [handler |-> "download", status |-> 200, error |-> ""]

\* download (GET /api/download/:jobId): the response of a request; 200 is
\* the file streamed to the client
downloadResponse(jobId) ==
    IF ~has(jobs, jobId)
    THEN [handler |-> "download", status |-> 404, error |-> "Job not found"]
    ELSE IF jobs[jobId].status # "completed"
    THEN [handler |-> "download", status |-> 400, error |-> "File not ready for download"]
    ELSE IF jobs[jobId].outputPath = NULL
    THEN [handler |-> "download", status |-> 400, error |-> "File not ready for download"]
    ELSE IF dirs[jobId] # "media"
    THEN [handler |-> "download", status |-> 410, error |-> "File has expired or been deleted"]
    ELSE [handler |-> "download", status |-> 200, error |-> ""]

\* cleanup (DELETE /api/cleanup/:jobId): the response of a request
cleanupResponse(jobId, fault) ==
    IF ~has(jobs, jobId)
    THEN [handler |-> "cleanup", status |-> 404, error |-> "Job not found"]
    ELSE IF fault # "none"
    THEN [handler |-> "cleanup", status |-> 500, error |-> "Internal server error"]
    ELSE [handler |-> "cleanup", status |-> 200, error |-> ""]

\* ---------------------------------------------------------- specifications

\* no function is looked at on its own
InitPure ==
    /\ rawFormats = << >>
    /\ extracted = << >>
    /\ toolOutput = << >>
    /\ delivered = 0
    /\ callbacks = << >>
    /\ lastCall = NoCall
    /\ tree = {}
    /\ frames = << >>
    /\ deletion = "idle"
    /\ intervalId = NoTimer
    /\ timers = {}
    /\ nextTimer = 1
    /\ passes = 0

Init ==
    /\ jobs = << >>
    /\ nextJob = 1
    /\ procs = << >>
    /\ activeProcesses = << >>
    /\ dirs = [e \in Entries |-> "none"]
    /\ mtime = [e \in Entries |-> 0]
    /\ spawned = 0
    /\ serverUp = TRUE
    /\ now = 0
    /\ report = [expired |-> {}, cleaned |-> {}, orphans |-> {}]
    /\ response = NoResponse
    /\ InitPure

Urls == {NULL, "invalid", "https://www.youtube.com/watch?v=dQw4w9WgXcQ"}

\* a step of the pipeline seen without the clock, the pass and the responses
Quiet == UNCHANGED <<now, report, response, pureVars>>

\* The pipeline within one minute: requests and subprocess events.
Next ==
    \/ \E url \in Urls, ip \in Clients : AnalyzeRejected(url, ip) /\ Quiet
    \/ \E url \in Urls, ip \in Clients :
            spawned < MaxProcs /\ Analyze(url, ip) /\ Quiet
    \/ \E p \in Pids, f \in FormatLists : MetadataResolve(p, f) /\ Quiet
    \/ \E p \in Pids, code \in {0, 1}, m \in MetadataErrors :
            MetadataReject(p, code, m) /\ Quiet
    \/ \E j \in JobIds : ProcessRejected(j) /\ Quiet
    \/ \E j \in JobIds, f \in FormatIdInputs, q \in QualityInputs :
            spawned < MaxProcs /\ Process(j, f, q) /\ Quiet
    \/ \E p \in Pids, pm \in {<<>>} \cup {<<pc>> : pc \in Percents}, d \in BOOLEAN :
            DownloadStdout(p, pm, d) /\ Quiet
    \/ \E p \in Pids : ToolWritesFile(p) /\ Quiet
    \/ \E p \in Pids, code \in {0, 1} : DownloadClose(p, code) /\ Quiet
    \/ \E p \in Pids : DownloadError(p) /\ Quiet
    \/ \E j \in JobIds : Download(j) /\ Quiet
    \/ \E j \in JobIds : CleanupRejected(j) /\ Quiet
    \/ \E j \in JobIds, fault \in Faults : Cleanup(j, fault) /\ Quiet

Spec == Init /\ [][Next]_vars

\* The server started over a temp directory that holds a stray file.
InitSweep ==
    /\ jobs = << >>
    /\ nextJob = 1
    /\ procs = << >>
    /\ activeProcesses = << >>
    /\ dirs = [e \in Entries |-> IF e = StrayEntry THEN "file" ELSE "none"]
    /\ mtime = [e \in Entries |-> 0]
    /\ spawned = 0
    /\ serverUp = TRUE
    /\ now = 0
    /\ report = [expired |-> {}, cleaned |-> {}, orphans |-> {}]
    /\ response = NoResponse
    /\ InitPure

\* The pipeline with the clock and the cleanup passes.
\* The requests and events carry one input each where the input has no
\* bearing on what a pass deletes (the renditions, the picked format, the
\* percentage of a progress line, the text of a metadata failure).
NextSweep ==
    \/ \E url \in Urls, ip \in Clients : AnalyzeRejected(url, ip) /\ Quiet
    \/ \E url \in Urls, ip \in Clients :
            spawned < MaxProcs /\ Analyze(url, ip) /\ Quiet
    \/ \E p \in Pids : MetadataResolve(p, <<>>) /\ Quiet
    \/ \E p \in Pids : MetadataReject(p, 1, "Failed to fetch video metadata") /\ Quiet
    \/ \E j \in JobIds : ProcessRejected(j) /\ Quiet
    \/ \E j \in JobIds : spawned < MaxProcs /\ Process(j, NULL, NULL) /\ Quiet
    \/ \E p \in Pids : DownloadStdout(p, <<>>, TRUE) /\ Quiet
    \/ \E p \in Pids : ToolWritesFile(p) /\ Quiet
    \/ \E p \in Pids, code \in {0, 1} : DownloadClose(p, code) /\ Quiet
    \/ \E p \in Pids : DownloadError(p) /\ Quiet
    \/ \E j \in JobIds : Download(j) /\ Quiet
    \/ \E j \in JobIds : CleanupRejected(j) /\ Quiet
    \/ \E j \in JobIds, fault \in Faults : Cleanup(j, fault) /\ Quiet
    \/ Tick
    \/ \E faults \in JobFaults :
            \E orphanFaults \in OrphanFaults(cleanupExpired(jobExpiryMinutes, faults)) :
                CleanupPass(faults, orphanFaults)

SpecSweep == InitSweep /\ [][NextSweep]_vars

\* The server restarted over a temp directory that holds the working
\* directory an earlier run left behind.
InitRestart ==
    /\ jobs = << >>
    /\ nextJob = 1
    /\ procs = << >>
    /\ activeProcesses = << >>
    /\ dirs = [e \in Entries |-> IF e = StrayEntry THEN "media" ELSE "none"]
    /\ mtime = [e \in Entries |-> 0]
    /\ spawned = 0
    /\ serverUp = TRUE
    /\ now = 0
    /\ report = [expired |-> {}, cleaned |-> {}, orphans |-> {}]
    /\ response = NoResponse
    /\ InitPure

SpecRestart == InitRestart /\ [][NextSweep]_vars

\* a pass on which no file system call throws
NoFaults == [e \in Entries |-> "none"]

\* The clock keeps running, the cleanup timer keeps firing and the passes
\* it starts meet no fault.
SpecTimer ==
    /\ InitSweep
    /\ [][NextSweep]_vars
    /\ WF_vars(Tick)
    /\ WF_vars(CleanupPass(NoFaults, NoFaults))

\* a step that sends an HTTP response
Respond(r) == response' = r /\ UNCHANGED <<now, report, pureVars>>

\* The pipeline with the response each request is answered with. The events
\* carry one input each where the input has no bearing on a response (the
\* renditions, the picked format, the percentage of a progress line).
NextApi ==
    \/ \E url \in Urls, ip \in Clients :
            AnalyzeRejected(url, ip) /\ Respond(analyzeError(url, ip))
    \/ \E url \in Urls, ip \in Clients :
            spawned < MaxProcs /\ Analyze(url, ip) /\ Quiet
    \/ \E p \in Pids : MetadataResolve(p, <<>>) /\ Respond(analyzeResponse(TRUE))
    \/ \E p \in Pids, code \in {0, 1}, m \in MetadataErrors :
            MetadataReject(p, code, m) /\ Respond(analyzeResponse(FALSE))
    \/ \E j \in JobIds : ProcessRejected(j) /\ Respond(processResponse(j))
    \/ \E j \in JobIds :
            spawned < MaxProcs /\ Process(j, NULL, NULL) /\ Respond(processResponse(j))
    \/ \E p \in Pids : DownloadStdout(p, <<>>, TRUE) /\ Quiet
    \/ \E p \in Pids : ToolWritesFile(p) /\ Quiet
    \/ \E p \in Pids, code \in {0, 1} : DownloadClose(p, code) /\ Quiet
    \/ \E p \in Pids : DownloadError(p) /\ Quiet
    \/ \E j \in JobIds : Download(j) /\ Respond(downloadResponse(j))
    \/ \E j \in JobIds : CleanupRejected(j) /\ Respond(cleanupResponse(j, "none"))
    \/ \E j \in JobIds, fault \in Faults :
            Cleanup(j, fault) /\ Respond(cleanupResponse(j, fault))

SpecApi == Init /\ [][NextApi]_vars

\* extractFormats on its own: the server parses one JSON document.
InitFormats ==
    /\ jobs = << >>
    /\ nextJob = 1
    /\ procs = << >>
    /\ activeProcesses = << >>
    /\ dirs = [e \in Entries |-> "none"]
    /\ mtime = [e \in Entries |-> 0]
    /\ spawned = 0
    /\ serverUp = TRUE
    /\ now = 0
    /\ report = [expired |-> {}, cleaned |-> {}, orphans |-> {}]
    /\ response = NoResponse
    /\ rawFormats \in RawFormatLists
    /\ extracted = << >>
    /\ toolOutput = << >>
    /\ delivered = 0
    /\ callbacks = << >>
    /\ lastCall = NoCall
    /\ tree = {}
    /\ frames = << >>
    /\ deletion = "idle"
    /\ intervalId = NoTimer
    /\ timers = {}
    /\ nextTimer = 1
    /\ passes = 0

NextFormats == ExtractFormats

SpecFormats == InitFormats /\ [][NextFormats]_vars

\* The stdout handler of a download on its own: the tool's output reaches
\* the handler in data events of any size.
InitStdout ==
    /\ jobs = << >>
    /\ nextJob = 1
    /\ procs = << >>
    /\ activeProcesses = << >>
    /\ dirs = [e \in Entries |-> "none"]
    /\ mtime = [e \in Entries |-> 0]
    /\ spawned = 0
    /\ serverUp = TRUE
    /\ now = 0
    /\ report = [expired |-> {}, cleaned |-> {}, orphans |-> {}]
    /\ response = NoResponse
    /\ rawFormats = << >>
    /\ extracted = << >>
    /\ toolOutput \in ToolOutputs
    /\ delivered = 0
    /\ callbacks = << >>
    /\ lastCall = NoCall
    /\ tree = {}
    /\ frames = << >>
    /\ deletion = "idle"
    /\ intervalId = NoTimer
    /\ timers = {}
    /\ nextTimer = 1
    /\ passes = 0

NextStdout == \E n \in 1..Len(toolOutput) : StdoutData(n)

SpecStdout == InitStdout /\ [][NextStdout]_vars

\* A job store that holds one job whose stages were set in any way, alone or
\* next to a second job, both created at minute 0.
StoreStates ==
    LET one == create(<< >>, 1, "https://www.youtube.com/watch?v=dQw4w9WgXcQ", "ip1")
        two == create(one, 2, "https://www.youtube.com/watch?v=dQw4w9WgXcQ", "ip1")
        Stages == [StageNames -> [status : StageStatuses \ {"processing"}, message : {""}]]
    IN {[js EXCEPT ![1].stages = st] : js \in {one, two}, st \in Stages}

\* The job store on its own: one call of update or updateStage on a store,
\* at any minute.
InitStore ==
    /\ now = 0
    /\ jobs \in StoreStates
    /\ nextJob = Cardinality(DOMAIN jobs) + 1
    /\ procs = << >>
    /\ activeProcesses = << >>
    /\ dirs = [e \in Entries |-> "none"]
    /\ mtime = [e \in Entries |-> 0]
    /\ spawned = 0
    /\ serverUp = TRUE
    /\ report = [expired |-> {}, cleaned |-> {}, orphans |-> {}]
    /\ response = NoResponse
    /\ InitPure

NextStore ==
    \/ \E j \in JobIds, u \in UpdateInputs : StoreUpdate(j, u)
    \/ \E j \in JobIds, s \in StageNames, st \in StageStatuses \ {"pending"} :
            StoreUpdateStage(j, s, st, "")
    \/ Tick

SpecStore == InitStore /\ [][NextStore]_vars

\* deleteDirectory on its own, on a job directory in any state, while the
\* download tool may still be writing into it.
InitDelete ==
    /\ jobs = << >>
    /\ nextJob = 1
    /\ procs = << >>
    /\ activeProcesses = << >>
    /\ dirs = [e \in Entries |-> "none"]
    /\ mtime = [e \in Entries |-> 0]
    /\ spawned = 0
    /\ serverUp = TRUE
    /\ now = 0
    /\ report = [expired |-> {}, cleaned |-> {}, orphans |-> {}]
    /\ response = NoResponse
    /\ rawFormats = << >>
    /\ extracted = << >>
    /\ toolOutput = << >>
    /\ delivered = 0
    /\ callbacks = << >>
    /\ lastCall = NoCall
    /\ tree \in Trees
    /\ frames = << >>
    /\ deletion = "idle"
    /\ intervalId = NoTimer
    /\ timers = {}
    /\ nextTimer = 1
    /\ passes = 0

NextDelete ==
    \/ DeleteDirectoryStart
    \/ \E e \in Paths : DeleteDirectoryEntry(e)
    \/ DeleteDirectoryRmdir
    \/ \E f \in ToolFiles : ToolAddsFile(f)

SpecDelete == InitDelete /\ [][NextDelete]_vars

\* The scheduler on its own, over a temp directory that holds the working
\* directory of an earlier run: start and stop called in any order, the
\* timers of the runtime ticking and the clock running.
NextScheduler ==
    \/ \E faults \in JobFaults :
            \E orphanFaults \in OrphanFaults(cleanupExpired(jobExpiryMinutes, faults)) :
                SchedulerStart(faults, orphanFaults)
    \/ SchedulerStop
    \/ \E t \in 1..MaxTimers, faults \in JobFaults :
            \E orphanFaults \in OrphanFaults(cleanupExpired(jobExpiryMinutes, faults)) :
                TimerFires(t, faults, orphanFaults)
    \/ Tick

SpecScheduler == InitRestart /\ [][NextScheduler]_vars

\* subprocess p exits and the server handles the event
Exits(p) ==
    \/ MetadataResolve(p, <<>>) /\ Quiet
    \/ MetadataReject(p, 1, "Failed to fetch video metadata") /\ Quiet
    \/ \E code \in {0, 1} : DownloadClose(p, code) /\ Quiet
    \/ DownloadError(p) /\ Quiet

\* The pipeline with room for two jobs that each start a download. The
\* requests and events carry one input each where the input has no bearing
\* on how a download settles.
NextExits ==
    \/ \E url \in Urls, ip \in Clients : AnalyzeRejected(url, ip) /\ Quiet
    \/ \E url \in Urls, ip \in Clients : Analyze(url, ip) /\ Quiet
    \/ \E p \in Pids : MetadataResolve(p, <<>>) /\ Quiet
    \/ \E p \in Pids : MetadataReject(p, 1, "Failed to fetch video metadata") /\ Quiet
    \/ \E j \in JobIds : ProcessRejected(j) /\ Quiet
    \/ \E j \in JobIds : Process(j, NULL, NULL) /\ Quiet
    \/ \E p \in Pids : DownloadStdout(p, <<>>, TRUE) /\ Quiet
    \/ \E p \in Pids : ToolWritesFile(p) /\ Quiet
    \/ \E p \in Pids, code \in {0, 1} : DownloadClose(p, code) /\ Quiet
    \/ \E p \in Pids : DownloadError(p) /\ Quiet
    \/ \E j \in JobIds : Download(j) /\ Quiet
    \/ \E j \in JobIds : CleanupRejected(j) /\ Quiet
    \/ \E j \in JobIds, fault \in Faults : Cleanup(j, fault) /\ Quiet

\* Every spawned subprocess eventually exits.
SpecExits == Init /\ [][NextExits]_vars /\ \A p \in Pids : WF_vars(Exits(p))

\* ================================================================== claims

Live == DOMAIN jobs
Kept == DOMAIN jobs \cap DOMAIN jobs'
stageStatus(job, i) == job.stages[stageOrder[i]].status

\* C1: in every reachable state of every job, a stage that is 'completed'
\* has every earlier stage of validation, metadata, download, processing,
\* ready 'completed' too.
C1_StagesCompleteInOrder ==
    \A j \in Live : \A i, k \in 1..Len(stageOrder) :
        (i < k /\ stageStatus(jobs[j], k) = "completed")
            => stageStatus(jobs[j], i) = "completed"

\* C2: the progress of a job read through getProgress never decreases from
\* one observation to the next while the record exists.
C2_ProgressNeverDecreases ==
    [][\A j \in Kept : jobs'[j].progress >= jobs[j].progress]_vars

\* C3: a job's progress is 100 if and only if its status is 'completed'.
C3_ProgressFullIffCompleted ==
    \A j \in Live : (jobs[j].progress = 100 * 100) <=> (jobs[j].status = "completed")

\* C4: a job's outputPath is non-null if and only if its status is
\* 'completed'.
C4_OutputPathIffCompleted ==
    \A j \in Live : (jobs[j].outputPath # NULL) <=> (jobs[j].status = "completed")

\* C5: a job's expiresAt is set if and only if its status is 'completed'.
C5_ExpiresAtIffCompleted ==
    \A j \in Live : (jobs[j].expiresAt # NoDate) <=> (jobs[j].status = "completed")

\* the edges of the job state machine
StatusEdges ==
    { <<"pending", "analyzing">>, <<"analyzing", "ready">>, <<"analyzing", "failed">>,
      <<"ready", "processing">>, <<"processing", "completed">>,
      <<"processing", "failed">>, <<"processing", "cancelled">> }

\* C6: every change of a job's status follows an edge of the state machine
\* (a record that appears was created 'pending' and is 'analyzing' when its
\* handler reaches its await).
C6_StatusFollowsEdges ==
    [][/\ \A j \in Kept : jobs'[j].status # jobs[j].status
                            => <<jobs[j].status, jobs'[j].status>> \in StatusEdges
       /\ \A j \in DOMAIN jobs' \ DOMAIN jobs : jobs'[j].status = "analyzing"]_vars

TerminalStatus == {"completed", "failed", "cancelled"}

\* C7: once a job's status is completed, failed or cancelled, no operation
\* changes it for as long as the record exists.
C7_TerminalStatusIsFinal ==
    [][\A j \in Kept : jobs[j].status \in TerminalStatus
                          => jobs'[j].status = jobs[j].status]_vars

\* C8: a download subprocess is spawned for a job only when the job is
\* 'ready' with its validation and metadata stages 'completed'.
C8_DownloadOnlyWhenReady ==
    [][\A p \in DOMAIN procs' \ DOMAIN procs :
          procs'[p].kind = "download"
            => /\ procs'[p].jobId \in Live
               /\ jobs[procs'[p].jobId].status = "ready"
               /\ jobs[procs'[p].jobId].stages["validation"].status = "completed"
               /\ jobs[procs'[p].jobId].stages["metadata"].status = "completed"]_vars

\* the subprocesses in flight for a job
inFlight(jobId) == {p \in DOMAIN procs : procs[p].jobId = jobId}

\* C9: when cleanup (DELETE /api/cleanup/:jobId) is invoked on a job with a
\* subprocess in flight, metadata fetch or download, every such subprocess
\* is sent the termination signal and the job is not 'completed' afterwards.
C9_CleanupSignalsSubprocess ==
    [][\A j \in JobIds, fault \in Faults :
          (Cleanup(j, fault) /\ inFlight(j) # {})
            => /\ \A p \in inFlight(j) : p \in DOMAIN procs' /\ procs'[p].killed
               /\ j \in DOMAIN jobs' => jobs'[j].status # "completed"]_vars

\* C10: when a download subprocess exits with a code that is not zero (as it
\* does on a termination signal), its job, if the record still exists, is
\* 'failed' (or 'cancelled') once the exit is handled, never 'completed'.
C10_SignalledExitNeverCompletes ==
    [][\A p \in DOMAIN procs :
          DownloadClose(p, 1)
            => \/ procs[p].jobId \notin DOMAIN jobs'
               \/ jobs'[procs[p].jobId].status \in {"failed", "cancelled"}]_vars

\* C10 witness: a job whose download exited with a non-zero code.
C10_Witness ==
    \E j \in Live :
        /\ jobs[j].status = "failed"
        /\ jobs[j].stages["download"] = [status |-> "failed", message |-> "Download failed"]
        /\ jobs[j].error = "Download failed"

\* C11: at any time each job id has at most one external subprocess running
\* (metadata fetch, download or transcode): no interleaving of analyze,
\* process and download-exit events starts a second one while one runs.
C11_OneSubprocessPerJob ==
    \A j \in JobIds : Cardinality(inFlight(j)) <= 1

\* the job's record after a failure of the stage with that message
recordedFailure(job, stage, message) ==
    /\ job.stages[stage].status = "failed"
    /\ job.error = message
    /\ job.status = "failed"

\* the messages download rejects with
DownloadErrors ==
    {"Download failed", "Download completed but output file not found", "Download error"}

\* C17: when the metadata fetch or the download of a job fails, the stage's
\* entry becomes 'failed', the job's error is the failure message and its
\* status 'failed', and the failure handler spawns nothing: a subprocess is
\* only ever spawned by an analyze or a process request.
C17_FailureRecordedNoRetry ==
    [][/\ \A p \in DOMAIN procs, code \in {0, 1}, m \in MetadataErrors :
            (MetadataReject(p, code, m) /\ procs[p].jobId \in DOMAIN jobs)
                => /\ recordedFailure(jobs'[procs[p].jobId], "metadata", m)
                   /\ DOMAIN procs' \subseteq DOMAIN procs
       /\ \A p \in DOMAIN procs, code \in {0, 1} :
            (/\ DownloadClose(p, code)
             /\ downloadOutcome(p, code) \in DownloadErrors
             /\ procs[p].jobId \in DOMAIN jobs)
                => /\ recordedFailure(jobs'[procs[p].jobId], "download",
                                      downloadOutcome(p, code))
                   /\ DOMAIN procs' \subseteq DOMAIN procs
       /\ \A p \in DOMAIN procs :
            (DownloadError(p) /\ procs[p].jobId \in DOMAIN jobs)
                => /\ recordedFailure(jobs'[procs[p].jobId], "download", "Download error")
                   /\ DOMAIN procs' \subseteq DOMAIN procs
       /\ (DOMAIN procs' \ DOMAIN procs # {})
            => \/ \E url \in Urls, ip \in Clients : Analyze(url, ip)
               \/ \E j \in JobIds, f \in FormatIdInputs, q \in QualityInputs :
                      Process(j, f, q)]_vars

\* C17 witness: a job whose metadata fetch failed, nothing running for it.
C17_Witness ==
    \E j \in Live, m \in MetadataErrors :
        /\ recordedFailure(jobs[j], "metadata", m)
        /\ inFlight(j) = {}

\* C20: download resolves with an output path exactly when the subprocess
\* exits with code zero and an output file exists (the captured filename or,
\* when none was captured, a media file found in the job's directory); it
\* rejects when the code is not zero or no output file is found after a
\* zero exit. Every exit therefore settles the promise one way or the other.
C20_DownloadResolvesIffFile ==
    [][\A p \in DOMAIN procs, code \in {0, 1} :
          DownloadClose(p, code)
            => /\ serverUp'
               /\ IF code = 0 /\ dirs[procs[p].jobId] = "media"
                  THEN jobs' = processDownloadResolved(jobs, procs[p].jobId, MediaFile)
                  ELSE \E m \in DownloadErrors :
                          jobs' = processDownloadRejected(jobs, procs[p].jobId, m)]_vars

\* a step that handles an analyze request with that URL from that requester
AnalyzeRequest(url, clientIp) ==
    \/ AnalyzeRejected(url, clientIp) /\ Respond(analyzeError(url, clientIp))
    \/ Analyze(url, clientIp)

\* C18: an analyze request whose URL is missing or is not classified as
\* valid is rejected before any subprocess is spawned and without creating a
\* job record: the job store is unchanged by the request.
C18_BadUrlChangesNothing ==
    [][\A url \in {NULL, "invalid"}, ip \in Clients :
          AnalyzeRequest(url, ip)
            => /\ response'.status \in {400, 429}
               /\ UNCHANGED <<jobs, nextJob, procs, spawned>>]_vars

\* C18 witness: a request with an unclassified URL was answered 400 by a
\* server that holds a job and is under the quota.
C18_Witness ==
    /\ response = [handler |-> "analyze", status |-> 400, error |-> "Unsupported platform"]
    /\ jobs # << >>
    /\ nextJob <= MaxJobs

\* the requester is at the quota of active jobs
atQuota(clientIp) == Cardinality(activeJobs(jobs, clientIp)) >= maxJobsPerIp

\* C19 as stated: an analyze request from a requester who already has
\* maxJobsPerIp or more jobs in status pending, analyzing or processing is
\* rejected with a quota error, creating no job record and spawning no
\* subprocess.
C19_QuotaRejects ==
    [][\A url \in Urls, ip \in Clients :
          (atQuota(ip) /\ AnalyzeRequest(url, ip))
            => /\ response'.status = 429
               /\ UNCHANGED <<jobs, nextJob, procs, spawned>>]_vars

\* C19 amended: such a request creates no job record and spawns no
\* subprocess; it is answered with the quota error (429) when it carries a
\* URL, and with 400 'URL is required' when it carries none, because the
\* URL presence is checked before the quota.
C19_QuotaRejectsWithUrl ==
    [][\A url \in Urls, ip \in Clients :
          (atQuota(ip) /\ AnalyzeRequest(url, ip))
            => /\ response' = IF url = NULL
                              THEN [handler |-> "analyze", status |-> 400,
                                    error |-> "URL is required"]
                              ELSE [handler |-> "analyze", status |-> 429,
                                    error |-> "Too many active jobs"]
               /\ UNCHANGED <<jobs, nextJob, procs, spawned>>]_vars

\* C19 witness: a request was answered 429 while the requester had an active
\* job and the server could still have created one.
C19_Witness ==
    /\ response.status = 429
    /\ \E ip \in Clients : atQuota(ip)
    /\ nextJob <= MaxJobs
    /\ spawned < MaxProcs

\* the age of a job in minutes, measured from createdAt
age(job) == now - job.createdAt

\* the jobs older than the expiry threshold
Aged == {j \in Live : age(jobs[j]) > jobExpiryMinutes}

\* the directory kinds of the temp directory's entries
Directories == {"empty", "media"}

\* after the step the job is gone: get returns null, getExpired does not
\* return it and its working directory does not exist
Gone(j) ==
    /\ j \notin DOMAIN jobs'
    /\ j \notin {k \in DOMAIN jobs' : now' - jobs'[k].createdAt > jobExpiryMinutes}
    /\ dirs'[j] = "none"

\* C12 as stated: after a cleanup pass finishes, no job whose age from
\* createdAt exceeded the expiry threshold at the start of the pass remains
\* in the store: get returns null for it, getExpired no longer returns it
\* and its working directory no longer exists.
C12_PassRemovesAged ==
    [][\A f \in JobFaults :
         \A g \in OrphanFaults(cleanupExpired(jobExpiryMinutes, f)) :
            CleanupPass(f, g) => \A j \in Aged : Gone(j)]_vars

\* C12 amended: after a cleanup pass finishes, every job whose age exceeded
\* the threshold at the start of the pass and whose directory was deleted
\* without an exception is gone (record, getExpired, directory); a job
\* whose directory deletion threw keeps its record and its directory, and
\* getExpired still returns it.
C12_PassRemovesAgedUnlessFault ==
    [][\A f \in JobFaults :
         \A g \in OrphanFaults(cleanupExpired(jobExpiryMinutes, f)) :
            CleanupPass(f, g)
              => \A j \in Aged :
                    IF f[j] = "none" THEN Gone(j)
                    ELSE /\ j \in DOMAIN jobs'
                         /\ now' - jobs'[j].createdAt > jobExpiryMinutes
                         /\ dirs'[j] \in Directories]_vars

\* C12 witness: the last pass removed an expired job while a younger job
\* kept its record.
C12_Witness ==
    /\ \E r \in report.expired :
          r.id \in report.cleaned /\ r.id \notin Live /\ dirs[r.id] = "none"
    /\ Live # {}

\* C13: the orphan scan never deletes a directory whose name is the id of
\* a job record present in the store when the scan runs, whatever the
\* directory's age; the directory of a job that has a record is removed
\* only by cleanupJob, together with that record.
C13_RecordProtectsDirectory ==
    [][/\ \A j \in Live : (dirs[j] # "none" /\ dirs'[j] = "none") => j \notin DOMAIN jobs'
       /\ \A f \in JobFaults :
            \A g \in OrphanFaults(cleanupExpired(jobExpiryMinutes, f)) :
               CleanupPass(f, g)
                 => \A j \in DOMAIN jobs' :
                       /\ j \notin report'.orphans
                       /\ j \notin Aged => dirs'[j] = dirs[j]]_vars

\* C13 witness: the last pass (its cleanupJob threw on the job) left alone
\* the directory of a job that still has its record, although the directory
\* is older than the threshold.
C13_Witness ==
    \E j \in Live : /\ dirs[j] \in Directories
                    /\ now - mtime[j] > jobExpiryMinutes
                    /\ \E r \in report.expired : r.id = j
                    /\ j \notin report.cleaned

\* the entries the orphan scan is to delete: directories with no record
\* whose modification-time age exceeds the threshold
Orphaned ==
    {e \in Entries \ Live : dirs[e] \in Directories /\ now - mtime[e] > jobExpiryMinutes}

\* C14 as stated: a cleanup pass deletes every subdirectory of the temp
\* root that has no job record and whose modification-time age exceeds the
\* threshold; entries that are younger, or that are not directories, are
\* left in place.
C14_PassRemovesOrphans ==
    [][\A f \in JobFaults :
         \A g \in OrphanFaults(cleanupExpired(jobExpiryMinutes, f)) :
            CleanupPass(f, g)
              => \A e \in Entries \ Live :
                    IF e \in Orphaned THEN dirs'[e] = "none"
                    ELSE dirs'[e] = dirs[e] /\ mtime'[e] = mtime[e]]_vars

\* C14 amended: a cleanup pass deletes every subdirectory of the temp root
\* that has no job record and whose modification-time age exceeds the
\* threshold, unless deleting it throws: then the directory stays (the
\* failure is logged and the scan goes on). Entries that are younger, or
\* that are not directories, are left in place.
C14_PassRemovesOrphansUnlessFault ==
    [][\A f \in JobFaults :
         \A g \in OrphanFaults(cleanupExpired(jobExpiryMinutes, f)) :
            CleanupPass(f, g)
              => \A e \in Entries \ Live :
                    IF e \in Orphaned
                    THEN IF g[e] = "none" THEN dirs'[e] = "none"
                         ELSE dirs'[e] \in Directories
                    ELSE dirs'[e] = dirs[e] /\ mtime'[e] = mtime[e]]_vars

\* C14 witness: the last pass deleted an orphaned directory and left the
\* stray file, which is as old, in place.
C14_Witness ==
    /\ \E e \in report.orphans : dirs[e] = "none" /\ e \notin Live
    /\ dirs[StrayEntry] = "file"
    /\ now - mtime[StrayEntry] > jobExpiryMinutes

\* C15: getExpired(expiryMinutes) returns exactly the jobs whose age from
\* createdAt is greater than expiryMinutes, whatever their status and their
\* expiresAt; a job that never completed and is older than the threshold is
\* returned and deleted by the sweep.
C15_ExpiredByCreatedAt ==
    [][\A f \in JobFaults :
         \A g \in OrphanFaults(cleanupExpired(jobExpiryMinutes, f)) :
            CleanupPass(f, g)
              => /\ {r.id : r \in report'.expired} = Aged
                 /\ \A j \in Live \ Aged : j \in DOMAIN jobs'
                 /\ \A j \in Aged :
                       (jobs[j].status # "completed" /\ f[j] = "none")
                           => j \notin DOMAIN jobs']_vars

\* C15 witness: the last pass returned and deleted a job that never
\* completed.
C15_Witness ==
    \E r \in report.expired :
        /\ r.status # "completed"
        /\ r.expiresAt = NoDate
        /\ r.id \in report.cleaned
        /\ r.id \notin Live

\* C16: the sweep deletes a completed job and its artifact while the time
\* is still before the job's expiresAt, when its age from createdAt exceeds
\* the threshold first: a completed job is not retrievable until expiresAt.
C16_CompletedSweptBeforeExpiresAt ==
    [][\A f \in JobFaults :
         \A g \in OrphanFaults(cleanupExpired(jobExpiryMinutes, f)) :
            CleanupPass(f, g)
              => \A j \in Aged :
                    (/\ jobs[j].status = "completed"
                     /\ now < jobs[j].expiresAt
                     /\ f[j] = "none")
                        => j \notin DOMAIN jobs' /\ dirs'[j] = "none"]_vars

\* C16 witness: the last pass deleted a completed job whose expiresAt is
\* still ahead.
C16_Witness ==
    \E r \in report.expired :
        /\ r.status = "completed"
        /\ now < r.expiresAt
        /\ r.id \in report.cleaned
        /\ r.id \notin Live
        /\ dirs[r.id] = "none"

\* C23: videoEngine.cancel(jobId) returns true exactly when a process is
\* registered for jobId in activeProcesses; it then signals that process
\* and removes the registration. When none is registered it returns false
\* and changes nothing, so a second cancel for the same job returns false.
C23_CancelReturnsRegistered ==
    [][\A j \in JobIds, fault \in Faults :
          (Cleanup(j, fault) /\ cleanupCancels(jobs[j]))
            => /\ cancel(activeProcesses, j) <=> j \in DOMAIN activeProcesses
               /\ cancel(activeProcesses, j)
                    => /\ procs'[activeProcesses[j]].killed
                       /\ j \notin DOMAIN activeProcesses'
                       /\ \A k \in DOMAIN activeProcesses' :
                              activeProcesses'[k] = activeProcesses[k]
               /\ ~cancel(activeProcesses, j)
                    => procs' = procs /\ activeProcesses' = activeProcesses
               /\ ~cancel(activeProcesses', j)]_vars

\* C23 witness: a signalled download whose job is still 'processing' and no
\* longer registered: the next cancel for that job returns false.
C23_Witness ==
    \E p \in DOMAIN procs :
        /\ procs[p].killed
        /\ procs[p].jobId \in Live
        /\ cleanupCancels(jobs[procs[p].jobId])
        /\ ~cancel(activeProcesses, procs[p].jobId)

\* C28: fetchMetadata fails, and the job becomes 'failed', whenever the tool
\* exits with a code that is not zero, its output cannot be parsed, or the
\* parsed output yields no usable rendition: a job is never 'ready' with an
\* empty renditions list.
C28_ReadyHasRenditions ==
    \A j \in Live : jobs[j].status = "ready" => jobs[j].formats # <<>>

\* C29: in every reachable state a job's progress is an integer between 0
\* and 100, also while the download's progress callbacks are applied.
C29_ProgressIsWholePercent ==
    \A j \in Live :
        /\ 0 <= jobs[j].progress
        /\ jobs[j].progress <= 100 * 100
        /\ jobs[j].progress % 100 = 0

\* a process request (POST /api/process) for the job and its response
ProcessRequest(jobId) ==
    /\ ProcessRejected(jobId) \/ Process(jobId, NULL, NULL)
    /\ response' = processResponse(jobId)

\* C30: a process request for a job whose status is already 'processing' is
\* answered with a conflict, changes nothing in the job record and spawns
\* no subprocess; of the process requests made for one job only the first
\* starts a download: a request that starts one finds the job's download
\* stage still 'pending'.
C30_OneDownloadPerJob ==
    [][\A j \in Live :
          ProcessRequest(j)
            => /\ jobs[j].status = "processing"
                    => /\ response'.status = 409
                       /\ UNCHANGED coreVars
               /\ spawned' # spawned
                    => jobs[j].stages["download"].status = "pending"]_vars

\* a download request (GET /api/download/:jobId) for the job and its response
DownloadRequest(jobId) ==
    /\ Download(jobId)
    /\ response' = downloadResponse(jobId)

\* the file of the job's outputPath exists
FileOnDisk(jobId) == dirs[jobId] = "media"

\* C24: GET /api/download/:jobId delivers the artifact only when the job
\* record exists, its status is 'completed', outputPath is set and the file
\* still exists on disk; an unknown job id, a job that is not completed and
\* a file already deleted each get an error response, and the job store is
\* left unchanged.
C24_DeliversOnlyCompletedFile ==
    [][\A j \in JobIds :
          DownloadRequest(j)
            => /\ response'.status = 200
                    <=> /\ has(jobs, j)
                        /\ jobs[j].status = "completed"
                        /\ jobs[j].outputPath # NULL
                        /\ FileOnDisk(j)
               /\ ~has(jobs, j) => response'.status = 404
               /\ (has(jobs, j) /\ jobs[j].status # "completed")
                    => response'.status = 400
               /\ (has(jobs, j) /\ jobs[j].status = "completed"
                                /\ jobs[j].outputPath # NULL /\ ~FileOnDisk(j))
                    => response'.status = 410
               /\ jobs' = jobs]_vars

\* C24 witness: a download request for a completed job whose file was
\* deleted has been answered 410.
C24_Witness ==
    /\ response = [handler |-> "download", status |-> 410,
                   error |-> "File has expired or been deleted"]
    /\ \E j \in Live :
            /\ jobs[j].status = "completed"
            /\ jobs[j].outputPath # NULL
            /\ ~FileOnDisk(j)

\* C27: if deleting one expired job's working directory fails during a
\* cleanup pass, the failure is caught and reaches no caller (the pass ends
\* with its report and the server stays up), every other expired job of
\* that pass is still cleaned up, and the orphan scan of the same pass
\* still runs: it deletes the orphaned directories it can delete.
C27_FailedDeletionIsContained ==
    [][\A f \in JobFaults :
         \A g \in OrphanFaults(cleanupExpired(jobExpiryMinutes, f)) :
            (CleanupPass(f, g) /\ \E j \in Aged : f[j] # "none")
              => /\ serverUp'
                 /\ \A k \in Aged : f[k] = "none" => Gone(k)
                 /\ report'.cleaned = {k \in Aged : f[k] = "none"}
                 /\ \A e \in Orphaned :
                        g[e] = "none" => dirs'[e] = "none" /\ e \in report'.orphans]_vars

\* C27 witness: the last pass failed on one expired job, which keeps its
\* record and its directory, cleaned another expired job and deleted an
\* orphaned directory.
C27_Witness ==
    /\ \E r \in report.expired :
          /\ r.id \notin report.cleaned
          /\ r.id \in Live
          /\ dirs[r.id] \in Directories
    /\ \E r \in report.expired :
          r.id \in report.cleaned /\ r.id \notin Live
    /\ \E e \in report.orphans : dirs[e] = "none"

\* the job's download has settled in the store, or the record is deleted
Settled(j) == j \notin Live \/ jobs[j].status \in {"completed", "failed"}

\* C25: assuming every spawned subprocess eventually exits, every job that
\* enters 'processing' eventually reaches status 'completed' or 'failed' or
\* has its record deleted: a failure of the background download task never
\* leaves the job in 'processing' forever.
C25_ProcessingSettles ==
    \A j \in JobIds : (j \in Live /\ jobs[j].status = "processing") ~> Settled(j)

\* the last minute at which a record or a directory can come into being
\* and still pass the expiry threshold before the clock of the model stops
Horizon == MaxTime - jobExpiryMinutes - 1

\* no job record created by Horizon is left, and no job directory without
\* a record that was last modified by Horizon
Swept ==
    \A j \in JobIds :
        /\ j \in Live => jobs[j].createdAt > Horizon
        /\ (j \notin Live /\ dirs[j] \in Directories) => mtime[j] > Horizon

VideoRendition(f) == f.vcodec \notin {NULL, "none"} /\ f.height # 0

\* an audio-only rendition of the tool's list: an audio codec and no video
\* codec (the tool writes 'none' for a codec that is not there)
AudioOnlyRendition(f) == f.acodec \notin {NULL, "none"} /\ f.vcodec \in {NULL, "none"}

\* the presets of a list extractFormats returned, with their badges
presetsOf(formats) ==
    LET isPreset(f) == f.preset # NULL
        picked == SelectSeq(formats, isPreset)
    IN [i \in 1..Len(picked) |-> [preset |-> picked[i].preset, badge |-> picked[i].badge]]

\* the presets the renditions call for, in the fixed order
expectedPresets(raw) ==
    LET video(h) == \E i \in 1..Len(raw) : VideoRendition(raw[i]) /\ raw[i].height >= h
        audio == \E i \in 1..Len(raw) : AudioOnlyRendition(raw[i])
        when(c, preset, badge) ==
            IF c THEN <<[preset |-> preset, badge |-> badge]>> ELSE << >>
    IN when(video(2160), "4k", "BEST QUALITY")
       \o when(video(1080), "1080p", "MOST POPULAR")
       \o when(video(720), "720p", "SMALLEST SIZE")
       \o when(audio, "audio", NULL)

\* C22: extractFormats returns presets in the fixed order 4k, 1080p, 720p,
\* audio: the 4k preset (badge BEST QUALITY) is there iff some video
\* rendition has height >= 2160, the 1080p preset (MOST POPULAR) iff some
\* has height >= 1080, the 720p preset (SMALLEST SIZE) iff some has
\* height >= 720, and the audio preset (no badge) iff an audio-only
\* rendition exists.
C22_PresetsFollowRenditions ==
    extracted # << >> => presetsOf(extracted[1]) = expectedPresets(rawFormats)

\* the lines of a text: the runs of characters between its newlines
RECURSIVE linesOf(_, _)
linesOf(text, line) ==
    IF text = << >> THEN (IF line = << >> THEN << >> ELSE <<line>>)
    ELSE IF Head(text) = "\n" THEN <<line>> \o linesOf(Tail(text), << >>)
    ELSE linesOf(Tail(text), Append(line, Head(text)))

\* the percentages of the lines that carry one, in the order of the lines
RECURSIVE percentages(_)
percentages(ls) ==
    IF ls = << >> THEN << >>
    ELSE matchProgress(Head(ls)) \o percentages(Tail(ls))

\* C21: for any sequence of progress lines the download's tool writes to
\* its standard output, onProgress is invoked once per line that carries a
\* percentage, with exactly those values and in the order of emission,
\* however the lines are grouped into stdout data events.
C21_OneCallbackPerLine ==
    delivered = Len(toolOutput)
        => callbacks = percentages(linesOf(toolOutput, << >>))

\* the download subprocesses of a job that run and were sent no signal
unsignalled(ps, jobId) ==
    {p \in DOMAIN ps : /\ ps[p].jobId = jobId
                       /\ ps[p].kind = "download"
                       /\ ~ps[p].killed}

\* C31: whenever a job record is deleted, by the expiry sweep or by the
\* cleanup request, no download subprocess of that job id keeps running
\* afterwards: none was running, or it was sent the termination signal.
C31_NoDownloadOutlivesRecord ==
    [][\A j \in Live : j \notin DOMAIN jobs' => unsignalled(procs', j) = {}]_vars

\* the job ids handed out so far
Issued == 1..(nextJob - 1)

\* C32: once a job record has been deleted, no later event for that job id
\* (progress callback, download exit, metadata completion, update or
\* updateStage call) re-creates it: update and updateStage on an unknown id
\* leave the store unchanged, and get(id) stays null.
C32_DeletedStaysDeleted ==
    [][\A j \in Issued \ Live :
          /\ j \notin DOMAIN jobs'
          /\ \A percent \in Percents : onProgress(jobs, j, percent) = jobs
          /\ \A s \in StageNames :
                updateStage(jobs, j, s, "completed", "Download complete") = jobs
          /\ update(jobs, j, [status |-> "completed", outputPath |-> MediaFile]) = jobs]_vars

\* C32 witness: the sweep deleted the record of a job whose download was
\* running (its status was 'processing'), and the server has handled the
\* exit of that download since.
C32_Witness ==
    \E e \in report.expired :
        /\ e.status = "processing"
        /\ e.id \in report.cleaned
        /\ e.id \in Issued \ Live
        /\ inFlight(e.id) = {}
        /\ serverUp

\* the download subprocesses that run and were sent no signal
RunningDownloads == {p \in Running("download") : ~procs[p].killed}

\* every running download is registered under its job id, and every entry
\* refers to a process that has not exited
Registered ==
    /\ \A p \in RunningDownloads :
          /\ procs[p].jobId \in DOMAIN activeProcesses
          /\ activeProcesses[procs[p].jobId] = p
    /\ \A j \in DOMAIN activeProcesses : activeProcesses[j] \in DOMAIN procs

\* C33: every running download subprocess is registered in activeProcesses
\* under its job id from spawn until it exits; an entry is removed only when
\* the very process it refers to has exited, failed to spawn or been
\* cancelled, and no entry remains for a process that has exited.
C33_RunningIsRegistered ==
    [][/\ Registered'
       /\ \A j \in DOMAIN activeProcesses :
             (j \notin DOMAIN activeProcesses' \/ activeProcesses'[j] # activeProcesses[j])
                => \/ activeProcesses[j] \notin DOMAIN procs'
                   \/ procs'[activeProcesses[j]].killed]_vars

\* C34: for every requester, the number of that requester's jobs in status
\* pending, analyzing or processing never exceeds maxJobsPerIp, under any
\* sequence of analyze and process requests.
C34_QuotaHolds ==
    \A ip \in Clients : Cardinality(activeJobs(jobs, ip)) <= maxJobsPerIp

\* how many stages, counted from stage i on in the order validation,
\* metadata, download, processing, ready, are 'completed' before the first
\* one that is not
RECURSIVE completedFrom(_, _)
completedFrom(stages, i) ==
    IF i > Len(stageOrder) THEN 0
    ELSE IF stages[stageOrder[i]].status # "completed" THEN 0
    ELSE 1 + completedFrom(stages, i + 1)

\* round(100 * i / 5), and 100 when all five stages are completed, in
\* hundredths
expectedProgress(stages) ==
    LET i == completedFrom(stages, 1)
    IN IF i = 5 THEN 100 * 100 ELSE ((200 * i + 5) \div 10) * 100

\* C35: immediately after every updateStage call on an existing job, its
\* progress equals round(100 * i / 5), i the index of the first stage in the
\* order that is not 'completed', and 100 when all five stages are
\* 'completed'; the job's stage label is the stage name just updated.
C35_ProgressFromFirstIncomplete ==
    [][\A j \in Live, s \in StageNames, st \in StageStatuses :
          StoreUpdateStage(j, s, st, "")
            => /\ jobs'[j].progress = expectedProgress(jobs'[j].stages)
               /\ jobs'[j].stage = s
               /\ jobs'[j].stages[s] = [status |-> st, message |-> ""]]_vars

\* C35 witness: updateStage completed the download stage of a job whose
\* metadata stage is not completed; the progress is the 20 of the first
\* stage that is not completed.
C35_Witness ==
    /\ lastCall.op = "updateStage"
    /\ lastCall.id \in Live
    /\ LET job == jobs[lastCall.id]
       IN /\ job.stage = "download"
          /\ job.stages["download"].status = "completed"
          /\ job.stages["validation"].status = "completed"
          /\ job.stages["metadata"].status = "failed"
          /\ job.progress = 20 * 100

\* the fields update is not to touch whatever it is passed
Protected == {"id", "createdAt"}

\* C36: jobStore.update(id, fields) on an existing job changes exactly the
\* given fields and updatedAt: the job's id and createdAt, every field not
\* named in the update and every other job's record are unchanged, for every
\* set of fields passed.
C36_UpdateChangesGivenFieldsOnly ==
    [][\A j \in Live, u \in UpdateInputs :
          StoreUpdate(j, u)
            => /\ \A f \in DOMAIN u \ (Protected \cup {"updatedAt"}) : jobs'[j][f] = u[f]
               /\ jobs'[j].updatedAt = now
               /\ \A f \in Protected : jobs'[j][f] = jobs[j][f]
               /\ \A f \in DOMAIN jobs[j] \ (DOMAIN u \cup {"updatedAt"}) :
                     jobs'[j][f] = jobs[j][f]
               /\ DOMAIN jobs'[j] = DOMAIN jobs[j]
               /\ DOMAIN jobs' = DOMAIN jobs
               /\ \A k \in Live \ {j} : jobs'[k] = jobs[k]]_vars

\* deleteDirectory issues rmdirSync on the directory of its innermost call
IssuesRmdir == DeleteDirectoryRmdir

\* C37: deleteDirectory removes a directory only after every file in it has
\* been unlinked and every subdirectory has itself been fully deleted; the
\* directory-removal primitive is never issued on a non-empty directory,
\* also when a still-running subprocess may add files to the directory
\* during the deletion.
C37_RmdirOnlyOnEmpty ==
    [][IssuesRmdir => readdir(tree, top(frames).dir) = {}]_vars

\* C37 as amended: deleteDirectory issues the directory-removal primitive on
\* a directory only after every entry of the listing it read there is gone
\* (files unlinked, subdirectories deleted with all they held), and a
\* directory is removed only when it is empty. A file that appears in the
\* directory after the listing was read is not unlinked: the primitive is
\* then issued on a non-empty directory, throws, and the directory and the
\* new file stay.
C37_RmdirAfterListedEntries ==
    [][IssuesRmdir
         => LET d == top(frames).dir
            IN /\ top(frames).files \cap tree = {}
               /\ \A e \in tree : Len(e) > 2 => parent(e) \notin top(frames).files
               /\ IF readdir(tree, d) = {}
                  THEN d \notin tree' /\ deletion' # "threw"
                  ELSE deletion' = "threw" /\ tree' = tree
               /\ readdir(tree, d) \subseteq ToolFiles]_vars

\* C37 witness: deleteDirectory read a listing that held a file and a
\* subdirectory, unlinked the file, came back from the call that removed the
\* subdirectory, and is about to remove the directory, which is empty.
C37_Witness ==
    /\ deletion = "running"
    /\ Len(frames) = 1
    /\ frames[1].files = {<<"job", "video.mp4">>, <<"job", "frags">>}
    /\ frames[1].rest = {}
    /\ tree = {JobDir}

\* C38: cleanupService.start runs one cleanup pass immediately and then one
\* pass on every interval tick; after stop() returns no further cleanup pass
\* is started, for any sequence of start and stop calls.
C38_StartRunsStopEnds ==
    [][/\ nextTimer' # nextTimer => passes' = passes + 1
       /\ intervalId' # NoTimer => timers' = {intervalId'}
       /\ intervalId' = NoTimer => timers' = {}
       /\ (passes' # passes /\ nextTimer' = nextTimer) => intervalId # NoTimer]_vars

\* the heights of the video renditions of the tool's list
videoHeights(raw) == {raw[i].height : i \in {k \in 1..Len(raw) : VideoRendition(raw[k])}}

\* the first video rendition of that height in the tool's list
firstOfHeight(raw, h) ==
    LET at == {i \in 1..Len(raw) : VideoRendition(raw[i]) /\ raw[i].height = h}
    IN raw[CHOOSE i \in at : \A k \in at : i <= k]

\* the deduplicated height-descending video list: one rendition for each of
\* the heights hs, tallest first
RECURSIVE descending(_, _)
descending(raw, hs) ==
    IF hs = {} THEN << >>
    ELSE LET h == CHOOSE x \in hs : \A y \in hs : x >= y
         IN <<firstOfHeight(raw, h)>> \o descending(raw, hs \ {h})

videoList(raw) == descending(raw, videoHeights(raw))

\* the height threshold of a video preset
threshold(preset) ==
    IF preset = "4k" THEN 2160 ELSE IF preset = "1080p" THEN 1080 ELSE 720

\* entry f of a result is the rendition r of the tool's list
carries(f, r) == f.formatId = r.format_id /\ f.height = r.height /\ f.type = "video"

\* C39: each synthesized video preset carries the best available rendition
\* at or above its height threshold (2160, 1080, 720), a rendition with
\* height >= the threshold taken from the deduplicated height-descending
\* list; when no preset at all can be built, the result is the first three
\* entries of that list.
C39_PresetCarriesBestRendition ==
    extracted # << >> =>
        LET result == extracted[1]
            list == videoList(rawFormats)
            noPreset == \A i \in 1..Len(result) : result[i].preset = NULL
        IN /\ \A i \in 1..Len(result) :
                 result[i].preset \in {"4k", "1080p", "720p"}
                    => /\ result[i].height >= threshold(result[i].preset)
                       /\ \E k \in 1..Len(list) : carries(result[i], list[k])
                       /\ \A k \in 1..Len(list) : list[k].height <= result[i].height
           /\ ( /\ \A k \in 1..Len(list) : list[k].height < 720
                /\ \A i \in 1..Len(rawFormats) : ~AudioOnlyRendition(rawFormats[i]) )
                 => noPreset
           /\ noPreset
                 => /\ Len(result) = (IF Len(list) < 3 THEN Len(list) ELSE 3)
                    /\ \A i \in 1..Len(result) : carries(result[i], list[i])

\* C39 witness: of a list with two renditions of height 1080 and one of 720
\* the 720p preset carries the 1080 rendition that came first.
C39_Witness ==
    /\ extracted # << >>
    /\ Len(rawFormats) = 3
    /\ rawFormats[1].format_id = "22"
    /\ rawFormats[2].format_id = "248"
    /\ rawFormats[3].format_id = "137"
    /\ \E i \in 1..Len(extracted[1]) :
          /\ extracted[1][i].preset = "720p"
          /\ extracted[1][i].formatId = "248"
          /\ extracted[1][i].height = 1080

\* C40: the renditions list exposed for a job (metadata.formats, stored as
\* job.formats) is deduplicated and height-sorted: no two video entries have
\* the same height or format identifier, video entries appear in descending
\* height, and there is at most one audio-only entry.
C40_ExposedListIsDeduplicated ==
    extracted # << >> =>
        LET formats == extracted[1]
            video == {i \in 1..Len(formats) : formats[i].type = "video"}
            audio == {i \in 1..Len(formats) : formats[i].type = "audio"}
        IN /\ \A i, k \in video :
                 i < k => /\ formats[i].height # formats[k].height
                          /\ formats[i].formatId # formats[k].formatId
                          /\ formats[i].height >= formats[k].height
           /\ Cardinality(audio) <= 1

====
